---- MODULE Spec2Model ----
(***************************************************************************)
(* Region scheduling and candidate generation of make_examples.py:         *)
(* contig reconciliation, calling regions, partitioning and sharding, the  *)
(* region-by-variant filter, processing_regions_from_options and the       *)
(* labeling step of RegionProcessor.process.                               *)
(*                                                                         *)
(* Conventions.  A Python value that may be None is a set: {} is None and  *)
(* {v} is the value v.  A list is a sequence.  A RangeSet is the set of    *)
(* the bases <<contig name, position>> it covers (so it is coalesced by    *)
(* construction); its iteration order is given by a contig list.  A call   *)
(* that can raise returns a record whose err field names the exception     *)
(* ("none" when it returns normally).                                      *)
(***************************************************************************)
EXTENDS Integers, Sequences, FiniteSets, TLC

\* ------------------------------------------------------------------ bounds

MaxBases == 3
MaxPartition == 2
MaxShards == 3
MaxVariants == 2
MaxCandidates == 2
MaxImages == 2
MaxRecords == 2
MaxCalls == 3

\* ------------------------------------------------------------- state

VARIABLES
  \* _ensure_consistent_contigs, called on its own
  c_ref, c_sam, c_vcf, c_exclude, c_min_cov, c_out,
  \* regions_to_process, called once without sharding parameters and once
  \* for every task_id value with the same num_shards
  r_contigs, r_partition_size, r_calling, r_num_shards, r_full, r_shard,
  \* filter_regions_by_vcf, called on a partitioner output
  f_regions, f_variants, f_out,
  \* processing_regions_from_options
  options, ref_contigs, all_sam_contigs, vcf_contigs, contigs,
  calling_regions, region_list, filter_vcf, variant_positions, returned,
  raised, pc,
  \* RegionProcessor.process (output assembly) and add_label_to_example
  p_mode, p_candidates, p_labels, p_images, p_examples, p_raised, p_pc,
  x_example, x_label, x_out,
  \* add_allele_frequencies_to_candidates: the candidates, the population
  \* VCF reader (None, or the variants of its file) and the candidates yielded
  q_candidates, q_reader, q_out,
  \* OutputsWriter: the options it was built from, _writers, the state of
  \* every destination, the records written to it, the sinks whose
  \* constructor or release fails, the last call made and the position
  w_options, w_writers, w_dest, w_written, w_fail, w_call, w_pc,
  \* one RegionProcessor, the reads file under it and the calls made on it
  rp_self, rp_reads_file, rp_log,
  \* make_examples_runner: the region list, the regions consumed so far, the
  \* totals, the calls made in order, the region whose processing raises,
  \* the exception that left the run and the position
  d_regions, d_done, d_totals, d_log, d_fault, d_raised, d_pc, d_run_info,
  \* default_options: the flags (parse_sam_aux_fields is assigned by it), the
  \* value the user gave to --parse_sam_aux_fields and the outcome
  flags_obj, fl_user, fl_raised,
  \* run_deeptrio: the flags and the result of create_all_commands
  FLAGS, commands,
  \* filter_candidates: the candidates, the selector names and the outcome
  s_candidates, s_select, s_out

contigVars == <<c_ref, c_sam, c_vcf, c_exclude, c_min_cov, c_out>>
regionVars ==
  <<r_contigs, r_partition_size, r_calling, r_num_shards, r_full, r_shard>>
filterVars == <<f_regions, f_variants, f_out>>
pipeVars ==
  <<options, ref_contigs, all_sam_contigs, vcf_contigs, contigs,
    calling_regions, region_list, filter_vcf, variant_positions, returned,
    raised, pc>>
labelVars ==
  <<p_mode, p_candidates, p_labels, p_images, p_examples, p_raised, p_pc,
    x_example, x_label, x_out>>
freqVars == <<q_candidates, q_reader, q_out>>
writerVars ==
  <<w_options, w_writers, w_dest, w_written, w_fail, w_call, w_pc>>
earlyVars == <<contigVars, regionVars, filterVars, pipeVars, labelVars>>
procVars == <<rp_self, rp_reads_file, rp_log>>
runVars ==
  <<d_regions, d_done, d_totals, d_log, d_fault, d_raised, d_pc, d_run_info>>
flagVars == <<flags_obj, fl_user, fl_raised>>
trioVars == <<FLAGS, commands>>
selVars == <<s_candidates, s_select, s_out>>
toolVars == <<flagVars, trioVars, selVars>>
laterVars == <<freqVars, writerVars, procVars, runVars, toolVars>>
vars == <<contigVars, regionVars, filterVars, pipeVars, labelVars, laterVars>>

\* ------------------------------------------------------------- helpers

None == {}
Some(v) == {v}
Val(x) == CHOOSE v \in x : TRUE
NotCalled == [err |-> "not called"]

Min(a, b) == IF a < b THEN a ELSE b

RECURSIVE Flatten(_)
Flatten(ss) == IF ss = <<>> THEN <<>> ELSE Head(ss) \o Flatten(Tail(ss))

RECURSIVE SortedSeq(_)
SortedSeq(S) ==
  IF S = {} THEN <<>>
  ELSE LET m == CHOOSE x \in S : \A y \in S : x <= y
       IN <<m>> \o SortedSeq(S \ {m})

RECURSIVE SumBases(_)
SumBases(cs) == IF cs = <<>> THEN 0 ELSE Head(cs).n_bases + SumBases(Tail(cs))

Range(s) == {s[i] : i \in DOMAIN s}

\* ------------------------------------------------ contigs and ranges

ContigNames == {"chr1", "chr2"}
ContigInfo(name, n) == [name |-> name, n_bases |-> n]
make_range(name, start, end) ==
  [reference_name |-> name, start |-> start, end |-> end]

\* ranges.contigs_n_bases
contigs_n_bases(cs) == SumBases(cs)

\* ranges.contigs_dict: name -> contig, the last contig of a name winning.
contigs_dict_has(cs, name) == \E i \in DOMAIN cs : cs[i].name = name
contigs_dict_get(cs, name) ==
  cs[CHOOSE i \in DOMAIN cs :
       /\ cs[i].name = name
       /\ \A j \in DOMAIN cs : cs[j].name = name => j <= i]

\* The bases of one Range, and RangeSet.from_regions / from_contigs.
BasesOf(r) == {<<r.reference_name, p>> : p \in r.start .. (r.end - 1)}
from_regions(rs) == UNION {BasesOf(r) : r \in rs}
from_contigs(cs) ==
  UNION {BasesOf(make_range(cs[i].name, 0, cs[i].n_bases)) : i \in DOMAIN cs}

\* RangeSet.intersection and RangeSet.exclude_regions.
intersection(a, b) == a \cap b
exclude_regions(a, b) == a \ b

\* Iteration of a RangeSet: its maximal intervals, by contig order in cs and
\* then by start.
IntervalsOn(rs, name) ==
  LET pos == {b[2] : b \in {x \in rs : x[1] = name}}
      starts == {p \in pos : (p - 1) \notin pos}
      endOf(s) == CHOOSE e \in (s + 1) .. (s + Cardinality(pos)) :
                    /\ e \notin pos
                    /\ \A q \in s .. (e - 1) : q \in pos
      ss == SortedSeq(starts)
  IN [i \in DOMAIN ss |-> make_range(name, ss[i], endOf(ss[i]))]
RangeSetIter(rs, cs) ==
  Flatten([i \in DOMAIN cs |-> IntervalsOn(rs, cs[i].name)])

\* RangeSet.partition: every interval cut into pieces of at most max_size.
PartitionInterval(r, max_size) ==
  LET n == (r.end - r.start + max_size - 1) \div max_size
  IN [i \in 1 .. n |->
        make_range(r.reference_name, r.start + (i - 1) * max_size,
                   Min(r.end, r.start + i * max_size))]
partition(rs, cs, max_size) ==
  LET iv == RangeSetIter(rs, cs)
  IN Flatten([i \in DOMAIN iv |-> PartitionInterval(iv[i], max_size)])

\* ------------------------------------------------------ contig reconciler

\* only_true: the sublist of the elements that evaluate to True.  An empty
\* list and None are both falsy, so both are dropped.
only_true(elts) == SelectSeq(elts, LAMBDA e : e # <<>>)

\* common2 with the length test left out (mutant of common2).
common2_NameOnly(contigs1, contigs2) ==
  SelectSeq(contigs1, LAMBDA c : contigs_dict_has(contigs2, c.name))

\* common_contigs.common2: the contigs of contigs1 whose name is in contigs2
\* with the same n_bases.
common2(contigs1, contigs2) ==
  LET is_common(contig1) ==
        /\ contigs_dict_has(contigs2, contig1.name)
        /\ contig1.n_bases = contigs_dict_get(contigs2, contig1.name).n_bases
  IN SelectSeq(contigs1, is_common)

\* common_contigs: contigs_list[0] reduced by common2 with every other list;
\* contigs_list[0] of an empty list raises IndexError.
RECURSIVE CommonFold(_, _)
CommonFold(common, others) ==
  IF others = <<>> THEN common
  ELSE CommonFold(common2(common, Head(others)), Tail(others))
common_contigs(contigs_list) ==
  IF contigs_list = <<>> THEN [err |-> "IndexError", contigs |-> <<>>]
  ELSE [err |-> "none",
        contigs |-> CommonFold(Head(contigs_list), Tail(contigs_list))]

\* coverage < min_coverage_fraction, the fraction being frac.num / frac.den
\* and coverage being common_bp / ref_bp with ref_bp > 0.
CoverageBelow(common_bp, ref_bp, frac) ==
  common_bp * frac.den < frac.num * ref_bp

\* validate_reference_contig_coverage: the name of the exception raised, or
\* "none".  The division is evaluated before the test, so ref_bp = 0 raises
\* ZeroDivisionError whatever shared_contigs is.
validate_reference_contig_coverage(ref, shared_contigs, min_coverage_fraction) ==
  LET ref_bp == contigs_n_bases(ref)
      common_bp == contigs_n_bases(shared_contigs)
  IN IF ref_bp = 0 THEN "ZeroDivisionError"
     ELSE IF shared_contigs = <<>>
             \/ CoverageBelow(common_bp, ref_bp, min_coverage_fraction)
          THEN "ValueError"
          ELSE "none"

\* _ensure_consistent_contigs.  vcf = <<>> stands for None and for an empty
\* list alike: the code tests `if vcf_contigs:`.
ensure_consistent_contigs(ref, sam, vcf, exclude_contig_names, min_coverage_fraction) ==
  LET ref1 == IF exclude_contig_names # {}
              THEN SelectSeq(ref, LAMBDA c : c.name \notin exclude_contig_names)
              ELSE ref
      cc == common_contigs(only_true(<<ref1, sam>>))
      vcf_contigs_names == {vcf[i].name : i \in DOMAIN vcf}
      shared == IF vcf # <<>>
                THEN SelectSeq(cc.contigs, LAMBDA x : x.name \in vcf_contigs_names)
                ELSE cc.contigs
      v == validate_reference_contig_coverage(ref1, shared, min_coverage_fraction)
  IN IF cc.err # "none" THEN [err |-> cc.err, contigs |-> <<>>]
     ELSE IF v # "none" THEN [err |-> v, contigs |-> <<>>]
     ELSE [err |-> "none", contigs |-> shared]

\* ------------------------------------------------- partitioner / sharder

\* Python truthiness of an int that may be None.
Truthy(x) == x # None /\ Val(x) # 0

\* The elements of s whose index i has i % n = t, the indices counted from
\* first (enumerate counts from 0).
ShardFrom(s, n, t, first) ==
  LET RECURSIVE Keep(_)
      Keep(i) == IF i > Len(s) THEN <<>>
                 ELSE (IF (i - 1 + first) % n = t THEN <<s[i]>> ELSE <<>>)
                      \o Keep(i + 1)
  IN Keep(1)
ShardOf(s, n, t) == ShardFrom(s, n, t, 0)

\* regions_to_process after the argument checks.
RegionsFor(cs, partition_size, calling, task_id, num_shards) ==
  LET regions0 == from_contigs(cs)
      regions == IF calling # {} THEN intersection(regions0, calling) ELSE regions0
      partitioned == partition(regions, cs, partition_size)
  IN IF Truthy(num_shards)
     THEN ShardOf(partitioned, Val(num_shards), Val(task_id))
     ELSE partitioned

\* Mutant: enumerate counted from 1.
regions_to_process_FromOne(cs, partition_size, calling, task_id, num_shards) ==
  IF (task_id = None) # (num_shards = None)
  THEN [err |-> "ValueError", regions |-> <<>>]
  ELSE IF Truthy(num_shards)
          /\ (Val(num_shards) < 0 \/ Val(task_id) < 0 \/ Val(task_id) >= Val(num_shards))
  THEN [err |-> "ValueError", regions |-> <<>>]
  ELSE [err |-> "none",
        regions |->
          LET p == RegionsFor(cs, partition_size, calling, None, None)
          IN IF Truthy(num_shards)
             THEN ShardFrom(p, Val(num_shards), Val(task_id), 1)
             ELSE p]

\* Mutant: task_id is not compared with num_shards.
regions_to_process_NoUpper(cs, partition_size, calling, task_id, num_shards) ==
  IF (task_id = None) # (num_shards = None)
  THEN [err |-> "ValueError", regions |-> <<>>]
  ELSE IF Truthy(num_shards) /\ (Val(num_shards) < 0 \/ Val(task_id) < 0)
  THEN [err |-> "ValueError", regions |-> <<>>]
  ELSE [err |-> "none",
        regions |-> RegionsFor(cs, partition_size, calling, task_id, num_shards)]

\* Mutant: the calling regions are not intersected.
regions_to_process_NoCalling(cs, partition_size, calling, task_id, num_shards) ==
  IF (task_id = None) # (num_shards = None)
  THEN [err |-> "ValueError", regions |-> <<>>]
  ELSE IF Truthy(num_shards)
          /\ (Val(num_shards) < 0 \/ Val(task_id) < 0 \/ Val(task_id) >= Val(num_shards))
  THEN [err |-> "ValueError", regions |-> <<>>]
  ELSE [err |-> "none",
        regions |-> RegionsFor(cs, partition_size, {}, task_id, num_shards)]

\* regions_to_process.  It is not a generator function: the argument checks
\* raise at the call, before any region is produced.
regions_to_process(cs, partition_size, calling, task_id, num_shards) ==
  IF (task_id = None) # (num_shards = None)
  THEN [err |-> "ValueError", regions |-> <<>>]
  ELSE IF Truthy(num_shards)
          /\ (Val(num_shards) < 0 \/ Val(task_id) < 0 \/ Val(task_id) >= Val(num_shards))
  THEN [err |-> "ValueError", regions |-> <<>>]
  ELSE [err |-> "none",
        regions |-> RegionsFor(cs, partition_size, calling, task_id, num_shards)]

\* ------------------------------------------------ region-by-variant filter

\* The keys of dict_by_chromosome(list_of_ranges), in insertion order.
ChromOrder(rs) ==
  LET first == {i \in DOMAIN rs :
                  \A j \in DOMAIN rs : rs[j].reference_name = rs[i].reference_name => i <= j}
      ix == SortedSeq(first)
  IN [k \in DOMAIN ix |-> rs[ix[k]].reference_name]

\* sorted(d[c], key=lambda x: (x.start, x.end)), a stable sort.
KeyLeq(a, b) == a.start < b.start \/ (a.start = b.start /\ a.end <= b.end)
RECURSIVE SortByStartEnd(_)
SortByStartEnd(rs) ==
  IF rs = <<>> THEN <<>>
  ELSE LET sorted == SortByStartEnd(SubSeq(rs, 1, Len(rs) - 1))
           x == rs[Len(rs)]
           n == Cardinality({i \in DOMAIN sorted : KeyLeq(sorted[i], x)})
       IN SubSeq(sorted, 1, n) \o <<x>> \o SubSeq(sorted, n + 1, Len(sorted))

\* dict_by_chromosome(list_of_ranges)[c]
dict_by_chromosome(rs, c) ==
  SortByStartEnd(SelectSeq(rs, LAMBDA r : r.reference_name = c))

\* Mutant: a variant at the first base of a region does not keep it.
RECURSIVE MergeScan_Strict(_, _, _, _)
MergeScan_Strict(regs, vs, ri, vi) ==
  IF ~(ri <= Len(regs) /\ vi <= Len(vs)) THEN <<>>
  ELSE LET region == regs[ri]
           variant == vs[vi]
       IN IF variant.start > region.start /\ variant.start < region.end
          THEN <<region>> \o MergeScan_Strict(regs, vs, ri + 1, vi + 1)
          ELSE IF region.start < variant.start
          THEN MergeScan_Strict(regs, vs, ri + 1, vi)
          ELSE MergeScan_Strict(regs, vs, ri, vi + 1)

\* The while loop of filter_regions_by_vcf on one contig, from the cursors
\* ri and vi (1-based here): the regions it appends to filtered_regions.
RECURSIVE MergeScan(_, _, _, _)
MergeScan(regs, vs, ri, vi) ==
  IF ~(ri <= Len(regs) /\ vi <= Len(vs)) THEN <<>>
  ELSE LET region == regs[ri]
           variant == vs[vi]
       IN IF variant.start >= region.start /\ variant.start < region.end
          THEN <<region>> \o MergeScan(regs, vs, ri + 1, vi + 1)
          ELSE IF region.start < variant.start
          THEN MergeScan(regs, vs, ri + 1, vi)
          ELSE MergeScan(regs, vs, ri, vi + 1)

\* filter_regions_by_vcf
filter_regions_by_vcf(regions, positions) ==
  LET cs == ChromOrder(regions)
      vcs == Range(ChromOrder(positions))
  IN Flatten([k \in DOMAIN cs |->
                IF cs[k] \notin vcs THEN <<>>
                ELSE MergeScan(dict_by_chromosome(regions, cs[k]),
                               dict_by_chromosome(positions, cs[k]), 1, 1)])

\* ------------------------------------- processing_regions_from_options

in_training_mode(opts) == opts.mode = "TRAINING"
gvcf_output_enabled(opts) == opts.gvcf_filename # ""

\* build_calling_regions; regions_to_include and regions_to_exclude are sets
\* of region literals, empty when the flag is not set.
build_calling_regions(cs, regions_to_include, regions_to_exclude) ==
  LET regions0 == from_contigs(cs)
      regions1 == IF regions_to_include # {}
                  THEN intersection(regions0, from_regions(regions_to_include))
                  ELSE regions0
  IN IF regions_to_exclude # {}
     THEN exclude_regions(regions1, from_regions(regions_to_exclude))
     ELSE regions1

\* The region count above which a VCF is read to narrow the regions down:
\* 10000 in the source, scaled here to the region lists of the model.
ManyRegions == 2

\* Mutant: gVCF output does not keep the filter off.
FilterVcf_IgnoreGvcf(opts, n) ==
  IF n > ManyRegions
  THEN (IF in_training_mode(opts) THEN opts.truth_variants_filename
        ELSE opts.proposed_variants_filename)
  ELSE ""

\* The filter_vcf that processing_regions_from_options reads for a region
\* list of n regions; "" when it filters nothing.
FilterVcf(opts, n) ==
  IF ~gvcf_output_enabled(opts) /\ n > ManyRegions
  THEN (IF in_training_mode(opts) THEN opts.truth_variants_filename
        ELSE opts.proposed_variants_filename)
  ELSE ""

\* ----------------------------------- RegionProcessor: labeling of examples

\* A Variant: its start and its genotype call ("./." when it has none).
Variant(start, genotype) == [start |-> start, genotype |-> genotype]

\* tf_utils.make_example for the k-th pileup image of a candidate: the image
\* is that of the candidate site and of the alt alleles it was drawn for;
\* no label yet.
make_example(candidate, k) ==
  [image |-> <<candidate.variant.start, k>>, alt_alleles_indices |-> k,
   variant |-> candidate.variant, label |-> None]

\* create_pileup_examples(dv_call): one example per pileup image; images[p]
\* is the number of images the encoder returns for the candidate at p.
create_pileup_examples(images, dv_call) ==
  [k \in 1 .. images[dv_call.variant.start] |-> make_example(dv_call, k)]

\* Label.label_for_alt_alleles(alt_alleles_indices)
label_for_alt_alleles(label, alt_alleles_indices) ==
  [genotype |-> label.variant.genotype, alt |-> alt_alleles_indices]

\* zip(candidates, labels)
Zip(candidates, labels) ==
  [i \in 1 .. Min(Len(candidates), Len(labels)) |->
     [candidate |-> candidates[i], label |-> labels[i]]]

\* label_candidates: the (candidate, label) pairs with a confident label.
label_candidates(candidates, labels) ==
  SelectSeq(Zip(candidates, labels), LAMBDA pr : pr.label.is_confident)

\* Mutant: the confidence of the label is not tested.
add_label_to_example_Unchecked(example, label) ==
  [err |-> "none",
   example |-> [example EXCEPT
                  !.variant = label.variant,
                  !.label = Some(label_for_alt_alleles(label, example.alt_alleles_indices))]]

\* add_label_to_example: the exception raised and the example object after
\* the call (example_set_variant, then example_set_label).
add_label_to_example(example, label) ==
  IF ~label.is_confident
  THEN [err |-> "ValueError", example |-> example]
  ELSE [err |-> "none",
        example |-> [example EXCEPT
                       !.variant = label.variant,
                       !.label = Some(label_for_alt_alleles(label, example.alt_alleles_indices))]]

\* Lines 1572-1582 of process: the examples of the candidates, labeled in
\* training mode.  An exception of add_label_to_example leaves the list
\* comprehension.
make_examples_for(mode, candidates, labels, images) ==
  IF mode = "TRAINING"
  THEN LET pairs == label_candidates(candidates, labels)
           outs == Flatten([i \in DOMAIN pairs |->
                     LET es == create_pileup_examples(images, pairs[i].candidate)
                     IN [k \in DOMAIN es |-> add_label_to_example(es[k], pairs[i].label)]])
       IN IF \E i \in DOMAIN outs : outs[i].err # "none"
          THEN [err |-> "ValueError", examples |-> <<>>]
          ELSE [err |-> "none", examples |-> [i \in DOMAIN outs |-> outs[i].example]]
  ELSE [err |-> "none",
        examples |-> Flatten([i \in DOMAIN candidates |->
                       create_pileup_examples(images, candidates[i])])]

\* ------------------------------------------------------------- inputs

\* Contig lists with distinct names and 1 .. MaxBases bases per contig.
ContigLists ==
  {<<>>}
  \cup {<<ContigInfo(n, k)>> : n \in ContigNames, k \in 1 .. MaxBases}
  \cup {<<ContigInfo(n[1], k1), ContigInfo(n[2], k2)>> :
          n \in {<<"chr1", "chr2">>, <<"chr2", "chr1">>},
          k1 \in 1 .. MaxBases, k2 \in 1 .. MaxBases}

\* Contigs of a VCF header; their length plays no part, so it is 0 here.
VcfContigLists ==
  {<<>>, <<ContigInfo("chr1", 0)>>, <<ContigInfo("chr2", 0)>>,
   <<ContigInfo("chr1", 0), ContigInfo("chr2", 0)>>}

\* min_coverage_fraction values: 0, 1/2, 0.9 (the default) and 1.
Fractions ==
  {[num |-> 0, den |-> 1], [num |-> 1, den |-> 2],
   [num |-> 9, den |-> 10], [num |-> 1, den |-> 1]}

\* ------------------------------------------------ idle components

ContigsIdle ==
  /\ c_ref = <<>> /\ c_sam = <<>> /\ c_vcf = <<>> /\ c_exclude = {}
  /\ c_min_cov = [num |-> 1, den |-> 1] /\ c_out = NotCalled
RegionsIdle ==
  /\ r_contigs = <<>> /\ r_partition_size = 1 /\ r_calling = {}
  /\ r_num_shards = None /\ r_full = NotCalled /\ r_shard = <<>>
FilterIdle ==
  /\ f_regions = <<>> /\ f_variants = <<>> /\ f_out = NotCalled
PipeIdle ==
  /\ options = [mode |-> "CALLING"] /\ ref_contigs = <<>>
  /\ all_sam_contigs = <<>> /\ vcf_contigs = <<>> /\ contigs = <<>>
  /\ calling_regions = {} /\ region_list = <<>> /\ filter_vcf = ""
  /\ variant_positions = <<>> /\ returned = <<>> /\ raised = "none"
  /\ pc = "idle"
LabelIdle ==
  /\ p_mode = "CALLING" /\ p_candidates = <<>> /\ p_labels = <<>>
  /\ p_images = <<>> /\ p_examples = <<>> /\ p_raised = "none"
  /\ p_pc = "idle" /\ x_example = None /\ x_label = None
  /\ x_out = NotCalled

FreqIdle ==
  /\ q_candidates = <<>> /\ q_reader = None /\ q_out = NotCalled
WriterIdle ==
  /\ w_options = [candidates_filename |-> ""] /\ w_writers = <<>>
  /\ w_dest = <<>> /\ w_written = <<>> /\ w_fail = {}
  /\ w_call = NotCalled /\ w_pc = "idle"
EarlyIdle ==
  ContigsIdle /\ RegionsIdle /\ FilterIdle /\ PipeIdle /\ LabelIdle
ProcIdle ==
  /\ rp_self = [initialized |-> FALSE] /\ rp_reads_file = <<>> /\ rp_log = <<>>
RunIdle ==
  /\ d_regions = <<>> /\ d_done = 0 /\ d_totals = <<0, 0, 0>> /\ d_log = <<>>
  /\ d_fault = None /\ d_raised = "none" /\ d_pc = "idle"
  /\ d_run_info = None
FlagsIdle ==
  /\ flags_obj = [parse_sam_aux_fields |-> None] /\ fl_user = None
  /\ fl_raised = "not called"
TrioIdle ==
  /\ FLAGS = [model_type |-> "WGS"] /\ commands = NotCalled
SelIdle ==
  /\ s_candidates = <<>> /\ s_select = <<>> /\ s_out = NotCalled
ToolIdle == FlagsIdle /\ TrioIdle /\ SelIdle
LaterIdle == FreqIdle /\ WriterIdle /\ ProcIdle /\ RunIdle /\ ToolIdle

\* ----------------------------------------------- regions_to_process alone

\* The contig lists given to regions_to_process (non-empty, as
\* _ensure_consistent_contigs raises when no contig is shared) and the
\* calling RangeSets (non-empty, as processing_regions_from_options raises on
\* an empty one before the call).  A calling RangeSet may cover bases of a contig that is
\* not in the contig list.
RegionContigLists ==
  {<<ContigInfo("chr1", MaxBases)>>,
   <<ContigInfo("chr1", MaxBases), ContigInfo("chr2", MaxBases - 1)>>,
   <<ContigInfo("chr2", MaxBases - 1), ContigInfo("chr1", MaxBases)>>}
AllBases ==
  from_contigs(<<ContigInfo("chr1", MaxBases), ContigInfo("chr2", MaxBases - 1)>>)
CallingRangeSets == (SUBSET AllBases) \ {{}}

\* The values task_id and num_shards take: None, -1, 0, .. , MaxShards.
OptInts == {None} \cup {Some(n) : n \in (0 - 1) .. MaxShards}
\* They are tried in the order None, 0, .. , MaxShards, -1.
NumTaskValues == MaxShards + 3
TaskValue(i) ==
  IF i = 1 THEN None ELSE IF i = NumTaskValues THEN Some(0 - 1) ELSE Some(i - 2)
TaskIndex(t) == IF t < 0 THEN NumTaskValues ELSE t + 2

InitRegions ==
  /\ r_contigs \in RegionContigLists
  /\ r_partition_size \in 1 .. MaxPartition
  /\ r_calling \in CallingRangeSets
  /\ r_num_shards \in OptInts
  /\ r_full = NotCalled
  /\ r_shard = <<>>
  /\ ContigsIdle /\ FilterIdle /\ PipeIdle /\ LabelIdle
  /\ LaterIdle

\* regions_to_process(contigs, partition_size, calling_regions)
CallUnsharded ==
  /\ r_full = NotCalled
  /\ r_full' = regions_to_process(r_contigs, r_partition_size, r_calling, None, None)
  /\ UNCHANGED <<r_contigs, r_partition_size, r_calling, r_num_shards, r_shard>>
  /\ UNCHANGED <<contigVars, filterVars, pipeVars, labelVars>>
  /\ UNCHANGED laterVars

\* regions_to_process(contigs, partition_size, calling_regions, task_id,
\* num_shards) for the next task_id value.
CallShard ==
  /\ Len(r_shard) < NumTaskValues
  /\ r_shard' = Append(r_shard,
                       regions_to_process(r_contigs, r_partition_size, r_calling,
                                          TaskValue(Len(r_shard) + 1), r_num_shards))
  /\ UNCHANGED <<r_contigs, r_partition_size, r_calling, r_num_shards, r_full>>
  /\ UNCHANGED <<contigVars, filterVars, pipeVars, labelVars>>
  /\ UNCHANGED laterVars

NextRegions == CallUnsharded \/ CallShard
SpecRegions == InitRegions /\ [][NextRegions]_vars

\* The task ids 0 .. N-1 of a sharded job have all been called.
AllShardsCalled ==
  /\ r_num_shards # None /\ Val(r_num_shards) >= 1
  /\ Len(r_shard) >= TaskIndex(Val(r_num_shards) - 1)
ShardOut(t) == r_shard[TaskIndex(t)]

\* C1: for num_shards N >= 1 the sequences returned for task_id 0 .. N-1 are
\* pairwise disjoint, their union is the unsharded sequence with nothing
\* produced twice, and shard t holds exactly the partitions of unsharded
\* index i with i mod N = t, in increasing i.
C1_Theorem ==
  (AllShardsCalled /\ r_full # NotCalled) =>
    LET N == Val(r_num_shards)
        full == r_full.regions
        idx(t) == {i \in 1 .. Len(full) : (i - 1) % N = t}
        pick(t) == LET ix == SortedSeq(idx(t)) IN [k \in DOMAIN ix |-> full[ix[k]]]
    IN /\ r_full.err = "none"
       /\ \A t \in 0 .. (N - 1) :
            /\ ShardOut(t).err = "none"
            /\ ShardOut(t).regions = pick(t)
       /\ \A t1, t2 \in 0 .. (N - 1) :
            t1 # t2 => Range(ShardOut(t1).regions) \cap Range(ShardOut(t2).regions) = {}
       /\ UNION {Range(ShardOut(t).regions) : t \in 0 .. (N - 1)} = Range(full)
       /\ \A r \in Range(full) :
            Cardinality({<<t, k>> \in (0 .. (N - 1)) \X (1 .. Len(full)) :
                           /\ k <= Len(ShardOut(t).regions)
                           /\ ShardOut(t).regions[k] = r}) = 1

\* Two shards, both called and both holding a partition, of at least three.
C1_Witness ==
  /\ AllShardsCalled /\ r_full # NotCalled
  /\ Val(r_num_shards) = 2
  /\ Len(r_full.regions) >= 3
  /\ Len(ShardOut(0).regions) >= 2 /\ Len(ShardOut(1).regions) >= 1

\* The call made for task value i, as (task_id, num_shards).
BothGiven(i) == TaskValue(i) # None /\ r_num_shards # None
OneGiven(i) == (TaskValue(i) = None) # (r_num_shards = None)
InRange(i) ==
  Val(TaskValue(i)) >= 0 /\ Val(TaskValue(i)) < Val(r_num_shards)

ContigPos(cs, name) == CHOOSE i \in DOMAIN cs : cs[i].name = name
\* r comes before s: by contig position, then by (start, end).
RangeBefore(cs, r, s) ==
  \/ ContigPos(cs, r.reference_name) < ContigPos(cs, s.reference_name)
  \/ /\ r.reference_name = s.reference_name
     /\ (r.start < s.start \/ (r.start = s.start /\ r.end < s.end))
\* Order, no overlap and size of a returned sequence.
WellPartitioned(rs) ==
  /\ \A i \in DOMAIN rs :
       /\ contigs_dict_has(r_contigs, rs[i].reference_name)
       /\ rs[i].end - rs[i].start >= 1
       /\ rs[i].end - rs[i].start <= r_partition_size
  /\ \A i, j \in DOMAIN rs :
       i < j => /\ RangeBefore(r_contigs, rs[i], rs[j])
                /\ rs[i].reference_name = rs[j].reference_name
                     => rs[i].end <= rs[j].start

\* C4: a returned sequence is ordered by contig position in the contigs
\* argument and then by (start, end), its partitions on one contig do not
\* overlap and each has length 1 .. partition_size; the partitions of the
\* unsharded sequence leave a gap only where the calling regions have one and
\* their union is the contig spans intersected with the calling regions.
C4_Theorem ==
  /\ \A i \in DOMAIN r_shard :
       r_shard[i].err = "none" => WellPartitioned(r_shard[i].regions)
  /\ r_full # NotCalled =>
       LET rs == r_full.regions
           target == from_contigs(r_contigs) \cap r_calling
       IN /\ r_full.err = "none"
          /\ WellPartitioned(rs)
          /\ UNION {BasesOf(rs[i]) : i \in DOMAIN rs} = target
          /\ \A i \in DOMAIN rs :
               (i < Len(rs) /\ rs[i].reference_name = rs[i + 1].reference_name
                  /\ rs[i].end < rs[i + 1].start)
                 => <<rs[i].reference_name, rs[i].end>> \notin target

\* An unsharded sequence over two contigs with chr2 first, a gap on chr1 and
\* an interval cut in two.
C4_Witness ==
  /\ r_full # NotCalled /\ r_full.err = "none"
  /\ Len(r_full.regions) >= 3
  /\ r_full.regions[1].reference_name = "chr2"
  /\ \E i \in DOMAIN r_full.regions :
       /\ i < Len(r_full.regions)
       /\ r_full.regions[i].reference_name = "chr1"
       /\ r_full.regions[i + 1].reference_name = "chr1"
       /\ r_full.regions[i].end < r_full.regions[i + 1].start
  /\ \E i \in DOMAIN r_full.regions :
       /\ i < Len(r_full.regions)
       /\ r_full.regions[i].reference_name = r_full.regions[i + 1].reference_name
       /\ r_full.regions[i].end = r_full.regions[i + 1].start

\* -------------------------------------------- filter_regions_by_vcf alone

\* variant_utils.variant_position of a variant at start.
variant_position(name, start) == make_range(name, start, start + 1)
VariantPositions ==
  {variant_position(n, p) : n \in ContigNames, p \in 0 .. (MaxBases - 1)}
VariantLists ==
  UNION {[1 .. n -> VariantPositions] : n \in 0 .. MaxVariants}

\* Region lists as the partitioner returns them, unsharded and for both
\* tasks of two shards.
PartitionerOutputs ==
  {regions_to_process(cs, ps, cr, sh[1], sh[2]).regions :
     cs \in RegionContigLists, ps \in 1 .. MaxPartition, cr \in CallingRangeSets,
     sh \in {<<None, None>>, <<Some(0), Some(2)>>, <<Some(1), Some(2)>>}}

InitFilter ==
  /\ f_regions \in PartitionerOutputs
  /\ f_variants \in VariantLists
  /\ f_out = NotCalled
  /\ ContigsIdle /\ RegionsIdle /\ PipeIdle /\ LabelIdle
  /\ LaterIdle

FilterRegionsByVcf ==
  /\ f_out = NotCalled
  /\ f_out' = [err |-> "none",
               regions |-> filter_regions_by_vcf(f_regions, f_variants)]
  /\ UNCHANGED <<f_regions, f_variants>>
  /\ UNCHANGED <<contigVars, regionVars, pipeVars, labelVars>>
  /\ UNCHANGED laterVars

NextFilter == FilterRegionsByVcf
SpecFilter == InitFilter /\ [][NextFilter]_vars

\* Some variant position v on the contig of r has r.start <= v.start < r.end.
ContainsVariant(vs, r) ==
  \E i \in DOMAIN vs :
    /\ vs[i].reference_name = r.reference_name
    /\ r.start <= vs[i].start /\ vs[i].start < r.end
OnContig(rs, c) == SelectSeq(rs, LAMBDA r : r.reference_name = c)

\* C2: the result of filter_regions_by_vcf holds exactly the input regions
\* that contain a variant position of their contig, each unmodified and once,
\* those of one contig in input order; a contig without variant positions
\* keeps no region.
C2_Theorem ==
  f_out # NotCalled =>
    /\ \A c \in ContigNames :
         OnContig(f_out.regions, c)
           = SelectSeq(OnContig(f_regions, c), LAMBDA r : ContainsVariant(f_variants, r))
    /\ \A i \in DOMAIN f_out.regions : f_out.regions[i].reference_name \in ContigNames
    /\ \A i, j \in DOMAIN f_out.regions : i # j => f_out.regions[i] # f_out.regions[j]
    /\ \A c \in ContigNames :
         (\A i \in DOMAIN f_variants : f_variants[i].reference_name # c)
           => OnContig(f_out.regions, c) = <<>>

\* Two variants in one region of chr1, which is kept once; another region of
\* chr1 is dropped, and so are the regions of chr2, which has no variant.
C2_Witness ==
  /\ f_out # NotCalled
  /\ Len(f_variants) = 2
  /\ f_variants[1].reference_name = "chr1" /\ f_variants[2].reference_name = "chr1"
  /\ f_variants[1].start > f_variants[2].start
  /\ Len(f_out.regions) = 1
  /\ ContainsVariant(<<f_variants[1]>>, f_out.regions[1])
  /\ ContainsVariant(<<f_variants[2]>>, f_out.regions[1])
  /\ Len(OnContig(f_regions, "chr1")) >= 2
  /\ Len(OnContig(f_regions, "chr2")) >= 1

\* -------------------------------- processing_regions_from_options, a run

chr1 == ContigInfo("chr1", MaxBases)
chr2 == ContigInfo("chr2", MaxBases - 1)

\* The reference header, and the headers of the reads files: one file with
\* both contigs, one with chr1 only, one with chr1 of another length, and
\* two files with no contig in common.
RefHeaders == {<<chr1, chr2>>}
SamHeaders ==
  {<<<<chr1, chr2>>>>, <<<<chr1>>>>, <<<<ContigInfo("chr1", MaxBases + 1), chr2>>>>,
   <<<<chr1>>, <<chr2>>>>}
\* The truth VCF header: no contig lines, or chr1 only.
VcfHeaders == {<<>>, <<ContigInfo("chr1", 0)>>}

IncludeFlags ==
  {{}, {make_range("chr1", 0, MaxBases)}, {make_range("chr2", 0, 1)},
   {make_range("chr1", 0, 1), make_range("chr1", 2, MaxBases)}}
ExcludeFlags ==
  {{}, {make_range("chr1", 0, MaxBases)}, {make_range("chr1", 1, 2)}}

Options ==
  {o \in [mode : {"CALLING", "TRAINING"},
          variant_caller : {"VERY_SENSITIVE_CALLER", "VCF_CANDIDATE_IMPORTER"},
          gvcf_filename : {"", "gvcf"},
          truth_variants_filename : {"", "truth.vcf"},
          proposed_variants_filename : {"", "proposed.vcf"},
          exclude_contigs : {{}, {"chr2"}},
          min_shared_contigs_basepairs :
            {[num |-> 1, den |-> 2], [num |-> 9, den |-> 10]},
          calling_regions : IncludeFlags,
          exclude_calling_regions : ExcludeFlags,
          partition_size : 1 .. MaxPartition,
          task_id : {0, 1},
          num_shards : {0, 2}] :
     \* the truth VCF is what makes a training run
     /\ (o.truth_variants_filename # "") = (o.mode = "TRAINING")
     /\ o.task_id <= o.num_shards}

Init ==
  /\ options \in Options
  /\ ref_contigs = <<>> /\ all_sam_contigs = <<>> /\ vcf_contigs = <<>>
  /\ contigs = <<>> /\ calling_regions = {} /\ region_list = <<>>
  /\ filter_vcf = "" /\ variant_positions = <<>> /\ returned = <<>>
  /\ raised = "none" /\ pc = "start"
  /\ ContigsIdle /\ RegionsIdle /\ FilterIdle /\ LabelIdle
  /\ LaterIdle

pipeRest == <<contigVars, regionVars, filterVars, labelVars, laterVars>>

\* Lines 1941-1957: the headers are read and the contigs reconciled.
ReconcileContigs ==
  /\ pc = "start"
  /\ \E ref \in RefHeaders, sams \in SamHeaders, vcf \in VcfHeaders :
       LET vcfc == IF in_training_mode(options) THEN vcf ELSE <<>>
           sam == common_contigs(only_true(sams))
           out == ensure_consistent_contigs(ref, sam.contigs, vcfc,
                                            options.exclude_contigs,
                                            options.min_shared_contigs_basepairs)
       IN /\ ref_contigs' = ref
          /\ all_sam_contigs' = sams
          /\ vcf_contigs' = vcfc
          /\ IF sam.err # "none"
             THEN raised' = sam.err /\ contigs' = <<>> /\ pc' = "raised"
             ELSE IF out.err # "none"
             THEN raised' = out.err /\ contigs' = <<>> /\ pc' = "raised"
             ELSE raised' = "none" /\ contigs' = out.contigs /\ pc' = "contigs"
  /\ UNCHANGED <<options, calling_regions, region_list, filter_vcf,
                 variant_positions, returned>>
  /\ UNCHANGED pipeRest

\* Lines 1960-1967: the calling regions are built from the reference contigs;
\* an empty RangeSet raises.
BuildCallingRegions ==
  /\ pc = "contigs"
  /\ calling_regions' = build_calling_regions(ref_contigs, options.calling_regions,
                                              options.exclude_calling_regions)
  /\ IF calling_regions' = {}
     THEN raised' = "ValueError: The regions to call is empty" /\ pc' = "raised"
     ELSE raised' = "none" /\ pc' = "calling"
  /\ UNCHANGED <<options, ref_contigs, all_sam_contigs, vcf_contigs, contigs,
                 region_list, filter_vcf, variant_positions, returned>>
  /\ UNCHANGED pipeRest

\* Lines 1968-1975: the regions of this task.
PartitionRegions ==
  /\ pc = "calling"
  /\ LET out == regions_to_process(contigs, options.partition_size, calling_regions,
                                   Some(options.task_id), Some(options.num_shards))
     IN IF out.err # "none"
        THEN raised' = out.err /\ region_list' = <<>> /\ pc' = "raised"
        ELSE raised' = "none" /\ region_list' = out.regions /\ pc' = "partitioned"
  /\ UNCHANGED <<options, ref_contigs, all_sam_contigs, vcf_contigs, contigs,
                 calling_regions, filter_vcf, variant_positions, returned>>
  /\ UNCHANGED pipeRest

\* Lines 1977-2005: with many regions and no gVCF output the filter VCF, if
\* there is one, is read and the regions filtered; else region_list is
\* returned.
NarrowAndReturn ==
  /\ pc = "partitioned"
  /\ filter_vcf' = FilterVcf(options, Len(region_list))
  /\ IF filter_vcf' # ""
     THEN \E vs \in VariantLists :
            /\ variant_positions' = vs
            /\ returned' = filter_regions_by_vcf(region_list, vs)
     ELSE /\ variant_positions' = <<>>
          /\ returned' = region_list
  /\ pc' = "done"
  /\ UNCHANGED <<options, ref_contigs, all_sam_contigs, vcf_contigs, contigs,
                 calling_regions, region_list, raised>>
  /\ UNCHANGED pipeRest

Next ==
  \/ ReconcileContigs
  \/ BuildCallingRegions
  \/ PartitionRegions
  \/ NarrowAndReturn
Spec == Init /\ [][Next]_vars

\* C5: with gVCF output enabled processing_regions_from_options returns the
\* list regions_to_process produced; no filter VCF is read.
C5_Theorem ==
  (pc = "done" /\ gvcf_output_enabled(options)) =>
    /\ returned = region_list
    /\ filter_vcf = "" /\ variant_positions = <<>>

\* gVCF output with many regions, in calling mode with proposed variants
\* imported from a VCF.
C5_Witness ==
  /\ pc = "done" /\ gvcf_output_enabled(options)
  /\ Len(region_list) > ManyRegions
  /\ options.proposed_variants_filename # ""
  /\ options.variant_caller = "VCF_CANDIDATE_IMPORTER"
  /\ returned = region_list

\* C6 (as claimed): regions are filtered by a VCF only when the candidates
\* come from that VCF (the VCF candidate importer), never when they are
\* called from the reads by the very-sensitive caller.
C6_Claim ==
  (pc = "done" /\ filter_vcf # "") =>
    options.variant_caller = "VCF_CANDIDATE_IMPORTER"

\* The bases to process: spans of the reconciled contigs, intersected with
\* the include regions if any, minus the exclude regions.
BasesToProcess ==
  build_calling_regions(contigs, options.calling_regions,
                        options.exclude_calling_regions)
Reconciled == pc \in {"contigs", "calling", "partitioned", "done"}
                \/ (pc = "raised" /\ raised \in {"ValueError: The regions to call is empty"})

\* C9 (as claimed): without sharding an empty region list is never returned,
\* and whenever the bases to process are empty the empty-calling-regions
\* error is raised instead of returning.
C9_Claim ==
  /\ (pc = "done" /\ options.num_shards = 0) => returned # <<>>
  /\ (pc \in {"done", "raised"} /\ Reconciled /\ BasesToProcess = {}) =>
       raised = "ValueError: The regions to call is empty"

\* ------------------------------------------- RegionProcessor.process, labels

\* The candidates of a region (at starts 1 .. n), the labels the labeler
\* returns for them (label i is that of variant i, with the genotype of the
\* truth) and the number of pileup images of each.
Genotypes == {"0/1", "1/1"}
LabelsOf(start) ==
  {[is_confident |-> c, variant |-> Variant(start, g)] : c \in BOOLEAN, g \in Genotypes}
CandidateLists ==
  {[i \in 1 .. n |-> [variant |-> Variant(i, "./.")]] : n \in 0 .. MaxCandidates}

InitProcess ==
  /\ p_mode \in {"CALLING", "TRAINING"}
  /\ p_candidates \in CandidateLists
  /\ p_labels \in {ls \in [1 .. Len(p_candidates) -> UNION {LabelsOf(i) : i \in 1 .. MaxCandidates}] :
                     \A i \in DOMAIN ls : ls[i] \in LabelsOf(i)}
  /\ p_images \in [1 .. Len(p_candidates) -> 0 .. MaxImages]
  /\ p_examples = <<>> /\ p_raised = "none" /\ p_pc = "start"
  /\ x_example = None /\ x_label = None /\ x_out = NotCalled
  /\ ContigsIdle /\ RegionsIdle /\ FilterIdle /\ PipeIdle
  /\ LaterIdle

\* RegionProcessor.process, from the candidates on.
Process ==
  /\ p_pc = "start"
  /\ LET out == make_examples_for(p_mode, p_candidates, p_labels, p_images)
     IN /\ p_examples' = out.examples
        /\ p_raised' = out.err
        /\ p_pc' = IF out.err = "none" THEN "done" ELSE "raised"
  /\ UNCHANGED <<p_mode, p_candidates, p_labels, p_images, x_example, x_label, x_out>>
  /\ UNCHANGED <<contigVars, regionVars, filterVars, pipeVars>>
  /\ UNCHANGED laterVars

\* add_label_to_example called on a fresh example with any label.
AddLabelToExample ==
  /\ x_out = NotCalled
  /\ \E k \in 1 .. MaxImages, label \in LabelsOf(1) :
       LET example == make_example([variant |-> Variant(1, "./.")], k)
       IN /\ x_example' = Some(example)
          /\ x_label' = Some(label)
          /\ x_out' = add_label_to_example(example, label)
  /\ UNCHANGED <<p_mode, p_candidates, p_labels, p_images, p_examples, p_raised, p_pc>>
  /\ UNCHANGED <<contigVars, regionVars, filterVars, pipeVars>>
  /\ UNCHANGED laterVars

NextProcess == Process \/ AddLabelToExample
SpecProcess == InitProcess /\ [][NextProcess]_vars

\* C10: in training mode every example process returns comes from a
\* candidate whose label, at the same index of the labeler's output, is
\* confident, and carries that label; a candidate with a non-confident label
\* yields no example; add_label_to_example with a non-confident label raises
\* and leaves the example as it was.
C10_Theorem ==
  /\ (p_pc \in {"done", "raised"} /\ p_mode = "TRAINING") =>
       /\ p_raised = "none"
       /\ \A n \in DOMAIN p_examples :
            LET e == p_examples[n]
                i == e.image[1]
            IN /\ i \in DOMAIN p_labels
               /\ p_labels[i].is_confident
               /\ e.variant = p_labels[i].variant
               /\ e.label = Some(label_for_alt_alleles(p_labels[i], e.alt_alleles_indices))
       /\ \A i \in DOMAIN p_labels :
            ~p_labels[i].is_confident =>
              \A n \in DOMAIN p_examples : p_examples[n].image[1] # i
  /\ (x_out # NotCalled /\ ~Val(x_label).is_confident) =>
       x_out.err = "ValueError" /\ x_out.example = Val(x_example)

\* Training mode: the first candidate has images but a non-confident label,
\* the second a confident label of another genotype and two examples;
\* and add_label_to_example has raised on a non-confident label.
C10_Witness ==
  /\ p_pc = "done" /\ p_mode = "TRAINING"
  /\ Len(p_candidates) = 2
  /\ ~p_labels[1].is_confident /\ p_images[1] = 2
  /\ p_labels[2].is_confident
  /\ p_labels[1].variant.genotype # p_labels[2].variant.genotype
  /\ Len(p_examples) = 2
  /\ x_out # NotCalled /\ ~Val(x_label).is_confident /\ x_out.err = "ValueError"

\* ------------------------------------- _ensure_consistent_contigs alone

InitContigs ==
  /\ c_ref \in ContigLists
  /\ c_sam \in ContigLists
  /\ c_vcf \in VcfContigLists
  /\ c_exclude \in SUBSET ContigNames
  /\ c_min_cov \in Fractions
  /\ c_out = NotCalled
  /\ RegionsIdle /\ FilterIdle /\ PipeIdle /\ LabelIdle
  /\ LaterIdle

EnsureConsistentContigs ==
  /\ c_out = NotCalled
  /\ c_out' = ensure_consistent_contigs(c_ref, c_sam, c_vcf, c_exclude, c_min_cov)
  /\ UNCHANGED <<c_ref, c_sam, c_vcf, c_exclude, c_min_cov>>
  /\ UNCHANGED <<regionVars, filterVars, pipeVars, labelVars>>
  /\ UNCHANGED laterVars

NextContigs == EnsureConsistentContigs
SpecContigs == InitContigs /\ [][NextContigs]_vars

\* The non-excluded reference contigs.
NonExcluded(ref, exclude) == SelectSeq(ref, LAMBDA c : c.name \notin exclude)
\* A contig of the same name and length is in cs.
HasSame(cs, c) ==
  \E i \in DOMAIN cs : cs[i].name = c.name /\ cs[i].n_bases = c.n_bases
\* A contig of the same name is in cs.
HasName(cs, c) == \E i \in DOMAIN cs : cs[i].name = c.name

\* The common contigs as the claims read them: every source must hold the
\* contig (an empty VCF list standing for "not given").
CommonStrict ==
  SelectSeq(NonExcluded(c_ref, c_exclude),
            LAMBDA c : HasSame(c_sam, c) /\ (c_vcf # <<>> => HasName(c_vcf, c)))
\* The common contigs with empty lists left out of the comparison.
CommonNonEmpty ==
  SelectSeq(NonExcluded(c_ref, c_exclude),
            LAMBDA c : /\ (c_sam # <<>> => HasSame(c_sam, c))
                       /\ (c_vcf # <<>> => HasName(c_vcf, c)))

\* C7 (as claimed): _ensure_consistent_contigs raises the contig-mismatch
\* ValueError exactly when there is no common contig or the common basepairs
\* over the non-excluded reference basepairs is below min_coverage_fraction,
\* also for empty lists and when every reference contig is excluded;
\* otherwise it returns the common contigs.
C7_Claim ==
  c_out # NotCalled =>
    LET common == CommonNonEmpty
        mismatch ==
          \/ common = <<>>
          \/ CoverageBelow(contigs_n_bases(common),
                           contigs_n_bases(NonExcluded(c_ref, c_exclude)),
                           c_min_cov)
    IN /\ mismatch => c_out.err = "ValueError"
       /\ ~mismatch => c_out.err = "none" /\ c_out.contigs = common

\* C8 (as claimed): a returned result is the subsequence of the non-excluded
\* reference contigs that the alignment list holds with the same name and
\* length and, if VCF contigs are given, that the VCF list holds by name.
C8_Claim ==
  (c_out # NotCalled /\ c_out.err = "none") => c_out.contigs = CommonStrict

\* C8 (amended): as C8_Claim, the alignment test applying only when the
\* alignment contig list is non-empty and the VCF test only when the VCF
\* list is non-empty; no input list is changed by the call.
C8_Result ==
  (c_out # NotCalled /\ c_out.err = "none") => c_out.contigs = CommonNonEmpty
C8_Theorem ==
  /\ [](C8_Result)
  /\ [][<<c_ref, c_sam, c_vcf, c_exclude>>' = <<c_ref, c_sam, c_vcf, c_exclude>>]_vars

\* A call that returned a proper, non-empty part of the reference contigs
\* with all three sources given and nothing excluded.
C8_Witness ==
  /\ c_out # NotCalled /\ c_out.err = "none"
  /\ c_sam # <<>> /\ c_vcf # <<>> /\ c_exclude = {}
  /\ Len(c_out.contigs) = 1 /\ Len(c_ref) = 2

\* ------------------------------------------- population allele frequencies
\* Bases are one-letter strings and an allele or a haplotype is a sequence of
\* bases.  A frequency is a whole number of tenths, so that One is the
\* frequency 1.  A Python dict is a function on its keys.

One == 10

Put(d, k, v) == [x \in DOMAIN d \cup {k} |-> IF x = k THEN v ELSE d[x]]
\* `not d.get(k)`: the key is missing or its value is 0.
NotGet(d, k) == k \notin DOMAIN d \/ d[k] = 0
EmptyDict == [x \in {} |-> 0]
RECURSIVE SumOver(_, _)
SumOver(d, keys) ==
  IF keys = {} THEN 0
  ELSE LET k == CHOOSE x \in keys : TRUE IN d[k] + SumOver(d, keys \ {k})
\* sum(d.values())
SumValues(d) == SumOver(d, DOMAIN d)

\* s[a:b] of Python for 0 <= a, with the indices clamped to the length.
Slice(s, a, b) == SubSeq(s, Min(a, Len(s)) + 1, Min(b, Len(s)))
\* list(s).index(x)
IndexOf(s, x) == (CHOOSE i \in DOMAIN s : s[i] = x /\ \A j \in 1 .. i - 1 : s[j] # x) - 1

\* A Variant proto: end = start + len(reference_bases); AF is info['AF'],
\* <<>> when the field is absent.
AFVariant(start, ref, alts, af) ==
  [reference_name |-> "chr1", start |-> start, end |-> start + Len(ref),
   reference_bases |-> ref, alternate_bases |-> alts, AF |-> af]

get_allele_frequency(variant, index) ==
  IF variant.AF # <<>>
  THEN IF index < Len(variant.AF)
       THEN [err |-> "none", value |-> variant.AF[index + 1]]
       ELSE [err |-> "ValueError", value |-> 0]
  ELSE [err |-> "ValueError", value |-> 0]

RECURSIVE SumAltFrequency(_, _)
SumAltFrequency(variant, n) ==
  IF n = 0 THEN [err |-> "none", value |-> 0]
  ELSE LET rest == SumAltFrequency(variant, n - 1)
           f == get_allele_frequency(variant, n - 1)
       IN IF rest.err # "none" THEN rest
          ELSE IF f.err # "none" THEN f
          ELSE [err |-> "none", value |-> rest.value + f.value]

get_ref_allele_frequency(variant) ==
  LET sum_alt_frequency == SumAltFrequency(variant, Len(variant.alternate_bases))
  IN IF sum_alt_frequency.err # "none" THEN sum_alt_frequency
     ELSE [err |-> "none", value |-> One - sum_alt_frequency.value]

\* The reference: one contig, whose bases IndexedFastaReader.query returns.
Genome == <<"A", "C", "A">>
is_valid(region) ==
  /\ region.reference_name = "chr1"
  /\ 0 <= region.start /\ region.start <= region.end
  /\ region.end <= Len(Genome)
ref_query(region) == SubSeq(Genome, region.start + 1, region.end)

MinOf(S) == CHOOSE x \in S : \A y \in S : x <= y
MaxOf(S) == CHOOSE x \in S : \A y \in S : x >= y

\* min([]) raises ValueError, as an invalid region does.
get_ref_haplotype_and_offset(dv_variant, cohort_variants) ==
  IF cohort_variants = <<>> THEN [err |-> "ValueError"]
  ELSE
    LET min_start_position ==
          MinOf({dv_variant.start}
                \cup {cohort_variants[i].start : i \in DOMAIN cohort_variants})
        max_end_position ==
          MaxOf({dv_variant.end}
                \cup {cohort_variants[i].end : i \in DOMAIN cohort_variants})
        haplotype_region ==
          [reference_name |-> dv_variant.reference_name,
           start |-> min_start_position, end |-> max_end_position]
    IN IF is_valid(haplotype_region)
       THEN [err |-> "none", haplotype |-> ref_query(haplotype_region),
             offset |-> min_start_position]
       ELSE [err |-> "ValueError"]

update_haplotype(variant, reference_haplotype, reference_offset) ==
  IF variant.start < reference_offset
  THEN [err |-> "ValueError", haps |-> <<>>]
  ELSE
    LET offset_start == variant.start - reference_offset
        offset_suffix ==
          variant.start + Len(variant.reference_bases) - reference_offset
    IN [err |-> "none",
        haps |->
          [i \in DOMAIN variant.alternate_bases |->
             [haplotype |->
                Slice(reference_haplotype, 0, offset_start)
                \o variant.alternate_bases[i]
                \o Slice(reference_haplotype, offset_suffix,
                         Len(reference_haplotype)),
              alt |-> variant.alternate_bases[i],
              variant |-> variant]]]

\* variant_utils.simplify_variant_alleles: the bases that end every allele
\* (reference and alternates) are removed, each allele keeping one base; the
\* start is kept.
RECURSIVE CommonSuffixLen(_, _)
CommonSuffixLen(alleles, n) ==
  IF /\ \A a \in alleles : Len(a) > n + 1
     /\ \A a \in alleles, b \in alleles : a[Len(a) - n] = b[Len(b) - n]
  THEN CommonSuffixLen(alleles, n + 1)
  ELSE n
simplify_variant_alleles(variant) ==
  LET alleles == {variant.reference_bases}
                 \cup {variant.alternate_bases[i] : i \in DOMAIN variant.alternate_bases}
      n == CommonSuffixLen(alleles, 0)
      Cut(a) == SubSeq(a, 1, Len(a) - n)
  IN [variant EXCEPT !.reference_bases = Cut(@),
                     !.alternate_bases = [i \in DOMAIN @ |-> Cut(@[i])],
                     !.end = variant.start + Len(variant.reference_bases) - n]

\* Lines 876-886 for one candidate haplotype and one cohort haplotype; acc
\* is the dict so far, or the error raised so far.
ExactMatch(acc, candidate_obj, cohort_obj) ==
  IF acc.err # "none" \/ candidate_obj.haplotype # cohort_obj.haplotype
  THEN acc
  ELSE LET cohort_variant == cohort_obj.variant
           cohort_frequency ==
             get_allele_frequency(
               cohort_variant,
               IndexOf(cohort_variant.alternate_bases, cohort_obj.alt))
           d1 == Put(acc.dict, candidate_obj.alt, cohort_frequency.value)
           ref == candidate_obj.variant.reference_bases
           ref_frequency == get_ref_allele_frequency(cohort_variant)
       IN IF cohort_frequency.err # "none"
          THEN [err |-> cohort_frequency.err, dict |-> acc.dict]
          ELSE IF ~NotGet(d1, ref) THEN [err |-> "none", dict |-> d1]
          ELSE IF ref_frequency.err # "none"
          THEN [err |-> ref_frequency.err, dict |-> d1]
          ELSE [err |-> "none", dict |-> Put(d1, ref, ref_frequency.value)]

\* Lines 873-890: the scan of the cohort haplotypes for one candidate
\* haplotype, then the 0 of an unmatched allele.
RECURSIVE ScanCohort(_, _, _, _)
ScanCohort(acc, candidate_obj, cohort_haps_and_freqs, j) ==
  IF j > Len(cohort_haps_and_freqs) THEN acc
  ELSE ScanCohort(ExactMatch(acc, candidate_obj, cohort_haps_and_freqs[j]),
                  candidate_obj, cohort_haps_and_freqs, j + 1)
MatchCandidate(acc, candidate_obj, cohort_haps_and_freqs) ==
  LET scanned == ScanCohort(acc, candidate_obj, cohort_haps_and_freqs, 1)
  IN IF scanned.err # "none" THEN scanned
     ELSE IF NotGet(scanned.dict, candidate_obj.alt)
          THEN [scanned EXCEPT !.dict = Put(@, candidate_obj.alt, 0)]
          ELSE scanned

\* Lines 868-890.
RECURSIVE ExactPass(_, _, _)
ExactPass(candidate_haps, cohort_haps_and_freqs, i) ==
  IF i = 0 THEN [err |-> "none", dict |-> EmptyDict]
  ELSE MatchCandidate(ExactPass(candidate_haps, cohort_haps_and_freqs, i - 1),
                      candidate_haps[i], cohort_haps_and_freqs)

\* Lines 899-907: the cohort variants whose simplified start and reference
\* bases are those of the simplified candidate set the frequency of
\* s_candidate.reference_bases.
RECURSIVE InexactPass(_, _, _, _)
InexactPass(acc, s_candidate, cohort_haps_and_freqs, j) ==
  IF j > Len(cohort_haps_and_freqs) \/ acc.err # "none" THEN acc
  ELSE
    LET s_cohort_variant ==
          simplify_variant_alleles(cohort_haps_and_freqs[j].variant)
        ref_frequency == get_ref_allele_frequency(s_cohort_variant)
        next ==
          IF /\ s_candidate.start = s_cohort_variant.start
             /\ s_candidate.reference_bases = s_cohort_variant.reference_bases
          THEN IF ref_frequency.err # "none"
               THEN [err |-> ref_frequency.err, dict |-> acc.dict]
               ELSE [err |-> "none",
                     dict |-> Put(acc.dict, s_candidate.reference_bases,
                                  ref_frequency.value)]
          ELSE acc
    IN InexactPass(next, s_candidate, cohort_haps_and_freqs, j + 1)

match_candidate_and_cohort_haplotypes(candidate_haps, cohort_haps_and_freqs) ==
  LET exact == ExactPass(candidate_haps, cohort_haps_and_freqs,
                         Len(candidate_haps))
      candidate == candidate_haps[1].variant
      inexact == InexactPass(exact, simplify_variant_alleles(candidate),
                             cohort_haps_and_freqs, 1)
  IN IF exact.err # "none" THEN exact
     ELSE IF SumValues(exact.dict) # 0 THEN exact
     ELSE IF candidate_haps = <<>> THEN [err |-> "IndexError", dict |-> exact.dict]
     ELSE IF inexact.err # "none" THEN inexact
     ELSE IF NotGet(inexact.dict, candidate.reference_bases)
          THEN [inexact EXCEPT !.dict = Put(@, candidate.reference_bases, One)]
          ELSE inexact

\* VcfReader.query: the variants of the file that overlap the region, in
\* file order.
vcf_query(file_variants, region) ==
  SelectSeq(file_variants,
            LAMBDA v : /\ v.reference_name = region.reference_name
                       /\ v.start < region.end /\ v.end > region.start)

\* The dict of lines 952-955 and 1788-1791.
RECURSIVE AltsZero(_, _, _)
AltsZero(d, alts, i) ==
  IF i > Len(alts) THEN d ELSE AltsZero(Put(d, alts[i], 0), alts, i + 1)
reference_only(variant) ==
  AltsZero(Put(EmptyDict, variant.reference_bases, One),
           variant.alternate_bases, 1)

\* The haplotypes of every cohort variant, lines 960-963.
RECURSIVE CohortHaps(_, _, _, _)
CohortHaps(cohort_variants, reference_haplotype, reference_offset, n) ==
  IF n = 0 THEN [err |-> "none", haps |-> <<>>]
  ELSE LET rest == CohortHaps(cohort_variants, reference_haplotype,
                              reference_offset, n - 1)
           h == update_haplotype(cohort_variants[n], reference_haplotype,
                                 reference_offset)
       IN IF rest.err # "none" THEN rest
          ELSE IF h.err # "none" THEN h
          ELSE [err |-> "none", haps |-> rest.haps \o h.haps]

find_matching_allele_frequency_NoFallback(variant, population_vcf_reader) ==
  LET query_region ==
        [reference_name |-> variant.reference_name,
         start |-> variant.start, end |-> variant.end]
      cohort_variants == vcf_query(population_vcf_reader, query_region)
      ref == get_ref_haplotype_and_offset(variant, cohort_variants)
  IN IF ref.err # "none"
     THEN [err |-> "none", dict |-> AltsZero(EmptyDict, variant.alternate_bases, 1)]
     ELSE match_candidate_and_cohort_haplotypes(
            update_haplotype(variant, ref.haplotype, ref.offset).haps,
            CohortHaps(cohort_variants, ref.haplotype, ref.offset,
                       Len(cohort_variants)).haps)
find_matching_allele_frequency(variant, population_vcf_reader) ==
  LET query_region ==
        [reference_name |-> variant.reference_name,
         start |-> variant.start, end |-> variant.end]
      cohort_variants == vcf_query(population_vcf_reader, query_region)
      ref == get_ref_haplotype_and_offset(variant, cohort_variants)
      candidate_haps == update_haplotype(variant, ref.haplotype, ref.offset)
      cohort_haps == CohortHaps(cohort_variants, ref.haplotype, ref.offset,
                                Len(cohort_variants))
  IN IF ref.err # "none"
     THEN [err |-> "none", dict |-> reference_only(variant)]
     ELSE IF candidate_haps.err # "none"
     THEN [err |-> candidate_haps.err, dict |-> EmptyDict]
     ELSE IF cohort_haps.err # "none"
     THEN [err |-> cohort_haps.err, dict |-> EmptyDict]
     ELSE match_candidate_and_cohort_haplotypes(candidate_haps.haps,
                                                cohort_haps.haps)

\* A DeepVariantCall.
DeepVariantCall(variant, allele_support, allele_frequency) ==
  [variant |-> variant, allele_support |-> allele_support,
   allele_frequency |-> allele_frequency]

\* The generator, run to its end by list(...) in process: the calls yielded,
\* or the error that stops it.
RECURSIVE add_allele_frequencies_to_candidates(_, _, _)
add_allele_frequencies_to_candidates(candidates, population_vcf_reader, n) ==
  IF n = 0 THEN [err |-> "none", calls |-> <<>>]
  ELSE
    LET rest == add_allele_frequencies_to_candidates(
                  candidates, population_vcf_reader, n - 1)
        candidate == candidates[n]
        found == IF population_vcf_reader # None
                 THEN find_matching_allele_frequency(
                        candidate.variant, Val(population_vcf_reader))
                 ELSE [err |-> "none", dict |-> reference_only(candidate.variant)]
    IN IF rest.err # "none" THEN rest
       ELSE IF found.err # "none" THEN [err |-> found.err, calls |-> rest.calls]
       ELSE [err |-> "none",
             calls |-> Append(rest.calls,
                              DeepVariantCall(candidate.variant,
                                              candidate.allele_support,
                                              found.dict))]

\* ---- inputs
\* Candidate variants: reference bases read from the reference at start 0
\* (one or two bases) or 1, and one or two distinct alternate alleles.
OneOrTwo(pool) ==
  {<<a>> : a \in pool} \cup {p \in pool \X pool : p[1] # p[2]}
CandidateVariants ==
  {AFVariant(0, <<"A">>, alts, <<>>) :
     alts \in OneOrTwo({<<"T">>, <<"C">>, <<"T", "C">>})}
  \cup {AFVariant(0, <<"A", "C">>, alts, <<>>) :
          alts \in OneOrTwo({<<"T">>, <<"T", "C">>, <<"A">>})}
  \cup {AFVariant(1, <<"C">>, <<<<"T">>>>, <<>>)}
CandidateLists2 ==
  {<<DeepVariantCall(v, "support 1", EmptyDict)>> : v \in CandidateVariants}
  \cup {<<DeepVariantCall(v, "support 1", EmptyDict),
          DeepVariantCall(AFVariant(1, <<"C">>, <<<<"T">>>>, <<>>),
                          "support 2", EmptyDict)>> : v \in CandidateVariants}

\* Cohort variants, each with one AF value per alternate allele that sum to
\* at most 1: at start 0 on one or two reference bases, at start 1, and one
\* that runs past the end of the contig.
CohortVariants ==
  {AFVariant(0, <<"A">>, <<alt>>, <<f>>) :
     alt \in {<<"T">>, <<"C">>, <<"T", "C">>}, f \in {0, 3, One}}
  \cup {AFVariant(0, <<"A">>, <<<<"T">>, <<"C">>>>, af) :
          af \in {<<3, 7>>, <<3, 3>>, <<0, One>>}}
  \cup {AFVariant(0, <<"A", "C">>, <<alt>>, <<f>>) :
          alt \in {<<"T">>, <<"C">>, <<"T", "C">>}, f \in {0, 3, One}}
  \cup {AFVariant(0, <<"A", "C">>, <<<<"T">>, <<"T", "C">>>>, af) :
          af \in {<<3, 7>>, <<3, 3>>, <<0, One>>}}
  \cup {AFVariant(1, <<"C">>, <<<<"T">>>>, <<3>>),
        AFVariant(1, <<"C", "A", "T">>, <<<<"C">>>>, <<3>>)}
PopulationFiles ==
  {<<>>} \cup {<<v>> : v \in CohortVariants}
  \cup {<<v, w>> : v \in CohortVariants, w \in CohortVariants}

InitFreq ==
  /\ q_candidates \in CandidateLists2
  /\ q_reader \in {None} \cup {Some(f) : f \in PopulationFiles}
  /\ q_out = NotCalled
  /\ EarlyIdle /\ ToolIdle /\ WriterIdle /\ ProcIdle /\ RunIdle

AddAlleleFrequencies ==
  /\ q_out = NotCalled
  /\ q_out' = add_allele_frequencies_to_candidates(
                q_candidates, q_reader, Len(q_candidates))
  /\ UNCHANGED <<q_candidates, q_reader>>
  /\ UNCHANGED <<earlyVars, toolVars, writerVars, procVars, runVars>>

NextFreq == AddAlleleFrequencies
SpecFreq == InitFreq /\ [][NextFreq]_vars

\* ---- the claims about the population haplotype matcher

\* The cohort variants queried for a candidate variant, the shared window,
\* and the haplotypes handed to match_candidate_and_cohort_haplotypes.
CohortOf(v) ==
  vcf_query(Val(q_reader),
            [reference_name |-> v.reference_name, start |-> v.start, end |-> v.end])
WindowOf(v) == get_ref_haplotype_and_offset(v, CohortOf(v))
\* The matcher ran for v: there is a reader, a cohort variant and a valid window.
Matched(v) == q_reader # None /\ WindowOf(v).err = "none"
CandidateHapsOf(v) ==
  update_haplotype(v, WindowOf(v).haplotype, WindowOf(v).offset).haps
CohortHapsOf(v) ==
  CohortHaps(CohortOf(v), WindowOf(v).haplotype, WindowOf(v).offset,
             Len(CohortOf(v))).haps
\* The cohort haplotypes equal to a candidate haplotype (their indices).
EqualHaps(v, h) ==
  {k \in DOMAIN CohortHapsOf(v) : CohortHapsOf(v)[k].haplotype = h.haplotype}
AFOf(cohort_obj) ==
  get_allele_frequency(cohort_obj.variant,
                       IndexOf(cohort_obj.variant.alternate_bases,
                               cohort_obj.alt)).value
RefAFOf(cohort_obj) == get_ref_allele_frequency(cohort_obj.variant).value

\* C11 (as claimed): every candidate alternate allele whose haplotype equals
\* a cohort haplotype is mapped to the AF of a matched cohort allele, and the
\* candidate's reference allele to 1 minus the sum of the alternate AFs of
\* that same cohort variant; an alternate allele without an equal cohort
\* haplotype is mapped to 0.
C11_Claim ==
  (q_out # NotCalled /\ q_out.err = "none") =>
    \A i \in DOMAIN q_out.calls :
      LET v == q_candidates[i].variant
          d == q_out.calls[i].allele_frequency
      IN Matched(v) =>
           \A n \in DOMAIN CandidateHapsOf(v) :
             LET h == CandidateHapsOf(v)[n]
             IN /\ h.alt \in DOMAIN d
                /\ IF EqualHaps(v, h) = {}
                   THEN d[h.alt] = 0
                   ELSE \E k \in EqualHaps(v, h) :
                          /\ d[h.alt] = AFOf(CohortHapsOf(v)[k])
                          /\ v.reference_bases \in DOMAIN d
                          /\ d[v.reference_bases] = RefAFOf(CohortHapsOf(v)[k])

\* The window over a candidate variant and its cohort variants is out of
\* the contig.
InvalidWindow(v) ==
  /\ q_reader # None /\ CohortOf(v) # <<>>
  /\ \E i \in DOMAIN CohortOf(v) : CohortOf(v)[i].end > Len(Genome)
NoCohortEvidence(v) ==
  \/ q_reader = None
  \/ CohortOf(v) = <<>>
  \/ InvalidWindow(v)
\* The mapping with the reference allele at 1, every alternate allele at 0
\* and no other key.
ReferenceOnly(v, d) ==
  /\ DOMAIN d = {v.reference_bases}
                \cup {v.alternate_bases[k] : k \in DOMAIN v.alternate_bases}
  /\ d[v.reference_bases] = One
  /\ \A k \in DOMAIN v.alternate_bases : d[v.alternate_bases[k]] = 0

\* C12: without a cohort reader, without cohort variants in the query, or
\* with an invalid shared window, the candidate's allele_frequency maps the
\* reference allele to 1 and every alternate allele to 0 with no other key;
\* add_allele_frequencies_to_candidates yields one call per candidate, in
\* order, with the candidate's variant and allele_support.
C12_Theorem ==
  (q_out # NotCalled /\ q_out.err = "none") =>
    /\ Len(q_out.calls) = Len(q_candidates)
    /\ \A i \in DOMAIN q_candidates :
         /\ q_out.calls[i].variant = q_candidates[i].variant
         /\ q_out.calls[i].allele_support = q_candidates[i].allele_support
         /\ NoCohortEvidence(q_candidates[i].variant) =>
              ReferenceOnly(q_candidates[i].variant,
                            q_out.calls[i].allele_frequency)
\* Two candidates were annotated and the shared window of the first, which
\* has a cohort variant, is invalid.
C12_Witness ==
  /\ q_out # NotCalled /\ q_out.err = "none"
  /\ Len(q_candidates) = 2
  /\ InvalidWindow(q_candidates[1].variant)
  /\ q_candidates[1].variant.start = 0
  /\ ReferenceOnly(q_candidates[1].variant, q_out.calls[1].allele_frequency)
  /\ q_out.calls[2].allele_support = "support 2"

AllelesOf(v) ==
  {v.reference_bases} \cup {v.alternate_bases[k] : k \in DOMAIN v.alternate_bases}

\* C13 (as claimed): for a candidate with an alternate allele and cohort
\* variants whose AF values are in [0,1] and sum to at most 1 per variant,
\* find_matching_allele_frequency returns a mapping whose keys are exactly
\* the candidate's reference_bases and alternate_bases, with every value in
\* [0,1].
C13_Claim ==
  (q_out # NotCalled /\ q_reader # None) =>
    /\ q_out.err = "none"
    /\ \A i \in DOMAIN q_out.calls :
         LET d == q_out.calls[i].allele_frequency
         IN /\ DOMAIN d = AllelesOf(q_candidates[i].variant)
            /\ \A a \in DOMAIN d : 0 <= d[a] /\ d[a] <= One

\* The dict after the exact pass (lines 867-890) for a candidate variant,
\* and the test of line 895.
ExactDictOf(v) ==
  ExactPass(CandidateHapsOf(v), CohortHapsOf(v), Len(CandidateHapsOf(v))).dict
EntersFallback(v) == Matched(v) /\ SumValues(ExactDictOf(v)) = 0
ExactMatchFound(v) ==
  \E n \in DOMAIN CandidateHapsOf(v) : EqualHaps(v, CandidateHapsOf(v)[n]) # {}
\* The reference frequencies of the cohort variants whose normalized start
\* and reference bases are those of the normalized candidate.
InexactRefAFs(v) ==
  LET s_candidate == simplify_variant_alleles(v)
  IN {get_ref_allele_frequency(simplify_variant_alleles(CohortOf(v)[k])).value :
        k \in {j \in DOMAIN CohortOf(v) :
                 LET s_cohort_variant == simplify_variant_alleles(CohortOf(v)[j])
                 IN /\ s_cohort_variant.start = s_candidate.start
                    /\ s_cohort_variant.reference_bases
                         = s_candidate.reference_bases}}
\* The candidates annotated by a call that returned.
Annotated ==
  IF q_out # NotCalled /\ q_out.err = "none" THEN DOMAIN q_out.calls ELSE {}

\* C25: when the fallback pass is entered, the result holds the candidate's
\* own alleles and no other key, every alternate allele at 0, and the
\* reference allele at the reference frequency of a cohort variant with the
\* same normalized start and reference bases, or at 1 when there is none.
C25_Claim ==
  \A i \in Annotated :
    LET v == q_candidates[i].variant
        d == q_out.calls[i].allele_frequency
    IN EntersFallback(v) =>
         /\ DOMAIN d = AllelesOf(v)
         /\ \A k \in DOMAIN v.alternate_bases : d[v.alternate_bases[k]] = 0
         /\ IF InexactRefAFs(v) = {}
            THEN d[v.reference_bases] = One
            ELSE d[v.reference_bases] \in InexactRefAFs(v)

\* The part of C25 that holds: every alternate allele is a key and stays at
\* 0, and the reference allele is a key.
C25_AltsStayZero ==
  \A i \in Annotated :
    LET v == q_candidates[i].variant
        d == q_out.calls[i].allele_frequency
    IN EntersFallback(v) =>
         /\ AllelesOf(v) \subseteq DOMAIN d
         /\ \A k \in DOMAIN v.alternate_bases : d[v.alternate_bases[k]] = 0

\* The same as C25 for the candidates that normalization leaves unchanged
\* and cohort variants whose reference frequency is not 0.
C25_Unsimplified ==
  \A i \in Annotated :
    LET v == q_candidates[i].variant
        d == q_out.calls[i].allele_frequency
    IN /\ EntersFallback(v)
       /\ simplify_variant_alleles(v) = v
       /\ 0 \notin InexactRefAFs(v)
       => /\ DOMAIN d = AllelesOf(v)
          /\ IF InexactRefAFs(v) = {}
             THEN d[v.reference_bases] = One
             ELSE d[v.reference_bases] \in InexactRefAFs(v)

\* C26: the fallback pass is entered if and only if no candidate haplotype
\* equals a cohort haplotype, and with an exact match the frequencies of the
\* exact pass are returned unchanged.
C26_Claim ==
  \A i \in Annotated :
    LET v == q_candidates[i].variant
        d == q_out.calls[i].allele_frequency
    IN Matched(v) =>
         /\ EntersFallback(v) <=> ~ExactMatchFound(v)
         /\ ExactMatchFound(v) => d = ExactDictOf(v)

\* The part of C26 that holds: without an exact match the fallback pass is
\* entered, and a dict of the exact pass that does not sum to 0 is returned
\* unchanged.
C26_NonZeroSum ==
  \A i \in Annotated :
    LET v == q_candidates[i].variant
        d == q_out.calls[i].allele_frequency
    IN Matched(v) =>
         /\ ~ExactMatchFound(v) => EntersFallback(v)
         /\ SumValues(ExactDictOf(v)) # 0 => d = ExactDictOf(v)

\* ------------------------------------------------------------ OutputsWriter
\* _writers is a function on the four sink names, in the order of the dict;
\* a writer object is named after its sink.  A destination is "closed" until
\* the writer's constructor opens it and "released" once the writer's
\* __exit__ has returned.  w_fail holds <<name, "open">> when the constructor
\* of that writer raises and <<name, "release">> when its __exit__ raises.

SinkNames == <<"candidates", "examples", "gvcfs", "runtime">>
Sinks == Range(SinkNames)
NoWriters == [k \in Sinks |-> None]
NoDest == [k \in Sinks |-> "closed"]
NoRecords == [k \in Sinks |-> 0]

\* The option that names the file of a sink.
FilenameOf(opts, name) ==
  CASE name = "candidates" -> opts.candidates_filename
    [] name = "examples" -> opts.examples_filename
    [] name = "gvcfs" -> opts.gvcf_filename
    [] name = "runtime" -> opts.runtime_by_region

\* A writer state: _writers, the destinations, the records written.
WriterState(writers, dest, written) ==
  [writers |-> writers, dest |-> dest, written |-> written]

add_writer_Rebind(writers, name, writer) ==
  IF name \notin DOMAIN writers
  THEN [err |-> "ValueError", writers |-> writers]
  ELSE [err |-> "none", writers |-> [writers EXCEPT ![name] = Some(writer)]]
add_writer(writers, name, writer) ==
  IF name \notin DOMAIN writers
  THEN [err |-> "ValueError", writers |-> writers]
  ELSE IF writers[name] # None
  THEN [err |-> "ValueError", writers |-> writers]
  ELSE [err |-> "none", writers |-> [writers EXCEPT ![name] = Some(writer)]]

\* Lines 2017-2032 for the sinks from the i-th on: the writer of a sink with
\* a filename is constructed, which opens the destination or raises, and is
\* then added; the runtime writer also gets the header line.
RECURSIVE InitFrom(_, _, _, _)
InitFrom(st, opts, fail, i) ==
  IF i > Len(SinkNames) THEN [err |-> "none", st |-> st]
  ELSE
    LET name == SinkNames[i]
        added == add_writer(st.writers, name, name)
        header == IF name = "runtime" THEN 1 ELSE 0
    IN IF FilenameOf(opts, name) = "" THEN InitFrom(st, opts, fail, i + 1)
       ELSE IF <<name, "open">> \in fail THEN [err |-> "IOError", st |-> st]
       ELSE IF added.err # "none"
       THEN [err |-> added.err,
             st |-> [st EXCEPT !.dest[name] = "open"]]
       ELSE InitFrom([writers |-> added.writers,
                      dest |-> [st.dest EXCEPT ![name] = "open"],
                      written |-> [st.written EXCEPT ![name] = @ + header]],
                     opts, fail, i + 1)
OutputsWriter_init(opts, fail) ==
  InitFrom(WriterState(NoWriters, NoDest, NoRecords), opts, fail, 1)

\* _write: the protos go to the writer when there is one.
write(st, writer_name, n) ==
  IF st.writers[writer_name] # None
  THEN [err |-> "none", st |-> [st EXCEPT !.written[writer_name] = @ + n]]
  ELSE [err |-> "none", st |-> st]
write_examples(st, n) == write(st, "examples", n)
write_gvcfs(st, n) == write(st, "gvcfs", n)
write_candidates(st, n) == write(st, "candidates", n)
\* write_runtime calls writer.write on _writers['runtime'] as it is: on None
\* the attribute lookup raises.
write_runtime(st) ==
  IF st.writers["runtime"] = None
  THEN [err |-> "AttributeError", st |-> st]
  ELSE [err |-> "none", st |-> [st EXCEPT !.written["runtime"] = @ + 1]]

\* __exit__ for the sinks from the i-th on: every writer is released in
\* turn; a release that raises ends the loop.
RECURSIVE ExitFrom(_, _, _)
ExitFrom(st, fail, i) ==
  IF i > Len(SinkNames) THEN [err |-> "none", st |-> st]
  ELSE
    LET name == SinkNames[i]
    IN IF st.writers[name] = None THEN ExitFrom(st, fail, i + 1)
       ELSE IF <<name, "release">> \in fail THEN [err |-> "IOError", st |-> st]
       ELSE ExitFrom([st EXCEPT !.dest[name] = "released"], fail, i + 1)
OutputsWriter_exit(st, fail) == ExitFrom(st, fail, 1)

\* ---- OutputsWriter used on its own: constructed, entered, written to and
\* exited, with _add_writer called again on any name.  No constructor or
\* release fails here.

Filenames == {"", "path"}
WriterOptions ==
  [candidates_filename : Filenames, examples_filename : Filenames,
   gvcf_filename : Filenames, runtime_by_region : Filenames]
\* The current writer state, and its assignment.
CurrentWriter == WriterState(w_writers, w_dest, w_written)
SetWriter(st) ==
  /\ w_writers' = st.writers /\ w_dest' = st.dest /\ w_written' = st.written
TotalWritten == SumOver(w_written, Sinks)
\* A call of a write operation and its outcome.
WriteCall(op, name, res) ==
  [op |-> op, name |-> name, err |-> res.err,
   unbound |-> (w_writers[name] = None),
   wrote |-> res.st.written[name] - w_written[name],
   changed |-> (res.st # CurrentWriter)]

InitWriter ==
  /\ w_options \in WriterOptions
  /\ w_writers = NoWriters /\ w_dest = NoDest /\ w_written = NoRecords
  /\ w_fail = {} /\ w_call = NotCalled /\ w_pc = "new"
  /\ EarlyIdle /\ ToolIdle /\ FreqIdle /\ ProcIdle /\ RunIdle

Construct ==
  /\ w_pc = "new"
  /\ LET res == OutputsWriter_init(w_options, w_fail)
     IN /\ SetWriter(res.st)
        /\ w_pc' = IF res.err = "none" THEN "constructed" ELSE "raised"
  /\ UNCHANGED <<w_options, w_fail, w_call>>
  /\ UNCHANGED <<earlyVars, toolVars, freqVars, procVars, runVars>>

AddWriter ==
  /\ w_pc \in {"constructed", "entered"}
  /\ \E name \in Sinks \cup {"unknown"} :
       LET res == add_writer(w_writers, name, "another writer")
       IN /\ w_writers' = res.writers
          /\ w_call' = [op |-> "_add_writer", name |-> name, err |-> res.err,
                        before |-> w_writers, after |-> res.writers]
  /\ UNCHANGED <<w_options, w_dest, w_written, w_fail, w_pc>>
  /\ UNCHANGED <<earlyVars, toolVars, freqVars, procVars, runVars>>

Enter ==
  /\ w_pc = "constructed"
  /\ w_pc' = "entered"
  /\ UNCHANGED <<w_options, w_writers, w_dest, w_written, w_fail, w_call>>
  /\ UNCHANGED <<earlyVars, toolVars, freqVars, procVars, runVars>>

WriteProtos ==
  /\ w_pc \in {"constructed", "entered"}
  /\ TotalWritten <= MaxRecords
  /\ \E n \in 1 .. MaxRecords, name \in {"candidates", "examples", "gvcfs"} :
       LET res == CASE name = "candidates" -> write_candidates(CurrentWriter, n)
                    [] name = "examples" -> write_examples(CurrentWriter, n)
                    [] name = "gvcfs" -> write_gvcfs(CurrentWriter, n)
       IN /\ SetWriter(res.st)
          /\ w_call' = WriteCall("write_" \o name, name, res)
  /\ UNCHANGED <<w_options, w_fail, w_pc>>
  /\ UNCHANGED <<earlyVars, toolVars, freqVars, procVars, runVars>>

WriteRuntime ==
  /\ w_pc \in {"constructed", "entered"}
  /\ TotalWritten <= MaxRecords
  /\ LET res == write_runtime(CurrentWriter)
     IN /\ SetWriter(res.st)
        /\ w_call' = WriteCall("write_runtime", "runtime", res)
  /\ UNCHANGED <<w_options, w_fail, w_pc>>
  /\ UNCHANGED <<earlyVars, toolVars, freqVars, procVars, runVars>>

Exit ==
  /\ w_pc = "entered"
  /\ LET res == OutputsWriter_exit(CurrentWriter, w_fail)
     IN /\ SetWriter(res.st)
        /\ w_pc' = IF res.err = "none" THEN "exited" ELSE "raised"
  /\ UNCHANGED <<w_options, w_fail, w_call>>
  /\ UNCHANGED <<earlyVars, toolVars, freqVars, procVars, runVars>>

NextWriter ==
  Construct \/ AddWriter \/ Enter \/ WriteProtos \/ WriteRuntime \/ Exit
SpecWriter == InitWriter /\ [][NextWriter]_vars

\* C14 (as claimed): a write operation on a sink that is unbound returns
\* normally, raises nothing and writes nothing, for each of the four sinks.
C14_Claim ==
  (w_call # NotCalled /\ w_call.op # "_add_writer" /\ w_call.unbound) =>
    w_call.err = "none" /\ w_call.wrote = 0 /\ ~w_call.changed

\* The sinks that are bound, and those whose filename option is not empty.
Bound(writers) == {k \in DOMAIN writers : writers[k] # None}
OptionSinks == {k \in Sinks : FilenameOf(w_options, k) # ""}
\* A step that is a call of _add_writer on an unbound sink.
BindsUnbound ==
  /\ w_call' # w_call /\ w_call'.op = "_add_writer"
  /\ w_call'.name \in Sinks /\ w_call'.before[w_call'.name] = None

\* C16: _add_writer on a bound sink raises and leaves _writers as it was,
\* on an unknown name it raises; the constructor binds exactly the sinks
\* whose filename option is not empty, and afterwards no operation other
\* than _add_writer on an unbound sink, which the program calls only from
\* the constructor, changes which sinks are bound or their writers.
C16_Theorem ==
  /\ [](w_call # NotCalled /\ w_call.op = "_add_writer" =>
          /\ (w_call.name \notin Sinks \/ w_call.before[w_call.name] # None) =>
               (w_call.err = "ValueError" /\ w_call.after = w_call.before)
          /\ w_call.after = w_writers)
  /\ [][(w_pc = "new" /\ w_pc' = "constructed") =>
          Bound(w_writers') = OptionSinks]_vars
  /\ [][(w_pc # "new" /\ ~BindsUnbound) => w_writers' = w_writers]_vars
\* _add_writer was called on a bound sink of an entered writer that also has
\* an unbound sink.
C16_Witness ==
  /\ w_pc = "entered" /\ w_call # NotCalled /\ w_call.op = "_add_writer"
  /\ w_call.name = "examples" /\ w_call.before["examples"] # None
  /\ w_call.err = "ValueError" /\ w_writers["gvcfs"] = None
  /\ w_writers["examples"] = Some("examples")

\* ---------------------------------------------------------- RegionProcessor
\* A read is [name, regions, alt, ...]: the regions it overlaps and whether
\* it shows an alternate allele, with the length of its aligned sequence,
\* the reads file it is in, and whether the realigner has returned it.  The
\* reads files are one sequence of records; a record with a fault is a part
\* of a file that cannot be read, and the query of that file for a region it
\* overlaps raises ValueError with the fault as its message.
\* SamReader.query(region) returns, in file order, the reads that overlap the
\* region.  The processor is a record of its fields; made counts how often
\* initialize constructed the resources and caller_calls how often the
\* variant caller was invoked.

sam_query(reads_file, region) ==
  SelectSeq(reads_file, LAMBDA r : region \in r.regions /\ r.fault = <<>>)

\* options.reads_filenames, and sam_readers[i].query(region) for the reader
\* of reads_filenames[i].
reads_filenames == <<"reads1.bam", "reads2.bam">>
sam_reader_query(reads_file, sam_reader_index, region) ==
  LET faults == SelectSeq(reads_file,
                          LAMBDA r : /\ r.source = sam_reader_index
                                     /\ region \in r.regions
                                     /\ r.fault # <<>>)
  IN IF faults # <<>>
     THEN [err |-> "ValueError", message |-> faults[1].fault, reads |-> <<>>]
     ELSE [err |-> "none", message |-> <<>>,
           reads |-> SelectSeq(sam_query(reads_file, region),
                               LAMBDA r : r.source = sam_reader_index)]

\* An error message is the sequence of its parts; str.startswith compares
\* the first part.
startswith(error_message, prefix) ==
  error_message # <<>> /\ Head(error_message) = prefix

\* Realigner.realign_reads(reads, region): the reads as the engine returns
\* them, one for each read given, in order.
realign_reads(reads, region) ==
  [debug_info |-> region,
   reads |-> [i \in DOMAIN reads |-> [reads[i] EXCEPT !.realigned = TRUE]]]

\* Line 1643.
max_read_length_to_realign == 500

\* np.random.RandomState(seed) and randint(0, n): a generator is a number,
\* and every draw moves it on.
RandomState(seed) == seed % 16
randint(random, n) ==
  [value |-> random % n, random |-> (5 * random + 3) % 16]

\* utils.reservoir_sample(iterable, k, random): the first k items, each
\* later item i replacing item j = randint(0, i + 1) when j < k.
RECURSIVE reservoir_sample(_, _, _, _)
reservoir_sample(items, k, random, n) ==
  IF n = 0 THEN [sample |-> <<>>, random |-> random]
  ELSE
    LET rest == reservoir_sample(items, k, random, n - 1)
        draw == randint(rest.random, n)
    IN IF Len(rest.sample) < k
       THEN [sample |-> Append(rest.sample, items[n]), random |-> rest.random]
       ELSE IF draw.value < k
       THEN [sample |-> [rest.sample EXCEPT ![draw.value + 1] = items[n]],
             random |-> draw.random]
       ELSE [sample |-> rest.sample, random |-> draw.random]

RegionProcessor(opts) ==
  [options |-> opts, initialized |-> FALSE, ref_reader |-> None,
   sam_readers |-> None, in_memory_sam_reader |-> None,
   variant_caller |-> None, made |-> 0, caller_calls |-> 0]

initialize_Again(rp) ==
  [err |-> "none",
   rp |-> [rp EXCEPT !.ref_reader = Some("ref_reader"),
                     !.sam_readers = Some("sam_readers"),
                     !.in_memory_sam_reader = Some(<<>>),
                     !.variant_caller = Some("variant_caller"),
                     !.made = @ + 1,
                     !.initialized = TRUE]]
initialize(rp) ==
  IF rp.initialized THEN [err |-> "ValueError", rp |-> rp]
  ELSE [err |-> "none",
        rp |-> [rp EXCEPT !.ref_reader = Some("ref_reader"),
                          !.sam_readers = Some("sam_readers"),
                          !.in_memory_sam_reader = Some(<<>>),
                          !.variant_caller = Some("variant_caller"),
                          !.made = @ + 1,
                          !.initialized = TRUE]]

\* Lines 1612-1634: the ValueError raised for the error of a query.
query_error(error_message, region, sam_reader_index) ==
  IF startswith(error_message, "Data loss:")
  THEN error_message \o <<"\nFailed to parse BAM/CRAM file. ">>
  ELSE IF startswith(error_message, "Not found: Unknown reference_name ")
  THEN error_message \o <<"\nThe region ", region, " does not exist in ",
                          reads_filenames[sam_reader_index], ".">>
  ELSE error_message

\* Lines 1607-1634: the readers are queried in order from reader i on;
\* queries lists the readers queried.
RECURSIVE gather_reads_Retry(_, _, _, _, _)
gather_reads_Retry(reads_file, region, i, reads, queries) ==
  IF i > Len(reads_filenames)
  THEN [err |-> "none", message |-> <<>>, reads |-> reads, queries |-> queries]
  ELSE LET q == sam_reader_query(reads_file, i, region)
       IN IF q.err # "none"
          THEN [err |-> "ValueError",
                message |-> query_error(q.message, region, i),
                reads |-> <<>>, queries |-> queries \o <<i, i>>]
          ELSE gather_reads_Retry(reads_file, region, i + 1, reads \o q.reads,
                                  Append(queries, i))
RECURSIVE gather_reads(_, _, _, _, _)
gather_reads(reads_file, region, i, reads, queries) ==
  IF i > Len(reads_filenames)
  THEN [err |-> "none", message |-> <<>>, reads |-> reads, queries |-> queries]
  ELSE LET q == sam_reader_query(reads_file, i, region)
       IN IF q.err # "none"
          THEN [err |-> "ValueError",
                message |-> query_error(q.message, region, i),
                reads |-> <<>>, queries |-> Append(queries, i)]
          ELSE gather_reads(reads_file, region, i + 1, reads \o q.reads,
                            Append(queries, i))

\* Lines 1642-1663: the reads returned and the calls of the engine.
realigned_or_not_All(opts, reads, region) ==
  IF opts.realigner_enabled
  THEN [reads |-> realign_reads(reads, region).reads,
        realign_calls |-> <<[reads |-> reads, region |-> region]>>]
  ELSE [reads |-> reads, realign_calls |-> <<>>]
realigned_or_not(opts, reads, region) ==
  IF opts.realigner_enabled
  THEN LET long_reads ==
             SelectSeq(reads, LAMBDA read :
                         read.aligned_sequence > max_read_length_to_realign)
           short_reads ==
             SelectSeq(reads, LAMBDA read :
                         read.aligned_sequence <= max_read_length_to_realign)
           realigned_short_reads == realign_reads(short_reads, region).reads
       IN [reads |-> long_reads \o realigned_short_reads,
           realign_calls |-> <<[reads |-> short_reads, region |-> region]>>]
  ELSE [reads |-> reads, realign_calls |-> <<>>]

\* region_reads: the reads of the region gathered from the readers,
\* down-sampled with a generator made from the seed when
\* max_reads_per_partition > 0, and realigned when the realigner is enabled.
region_reads(rp, reads_file, region) ==
  LET gathered == IF rp.sam_readers # None
                  THEN gather_reads(reads_file, region, 1, <<>>, <<>>)
                  ELSE [err |-> "none", message |-> <<>>, reads |-> <<>>,
                        queries |-> <<>>]
      random_for_region == RandomState(rp.options.random_seed)
      reads == IF rp.options.max_reads_per_partition > 0
               THEN reservoir_sample(gathered.reads,
                                     rp.options.max_reads_per_partition,
                                     random_for_region,
                                     Len(gathered.reads)).sample
               ELSE gathered.reads
      out == realigned_or_not(rp.options, reads, region)
  IN IF gathered.err # "none"
     THEN [err |-> gathered.err, message |-> gathered.message,
           reads |-> <<>>, queries |-> gathered.queries,
           realign_calls |-> <<>>]
     ELSE [err |-> "none", message |-> <<>>, reads |-> out.reads,
           queries |-> gathered.queries, realign_calls |-> out.realign_calls]

\* Line 1542: in_memory_sam_reader.replace_reads(reads).
store_reads_Append(rp, reads) ==
  [rp EXCEPT !.in_memory_sam_reader = Some(Val(@) \o reads)]
store_reads(rp, reads) ==
  [rp EXCEPT !.in_memory_sam_reader = Some(reads)]

\* VariantCaller.calls_and_gvcfs: a candidate for every read that shows an
\* alternate allele and, when asked for, one gVCF record for the region.
calls_and_gvcfs(reads, region, include_gvcfs) ==
  [candidates |->
     LET alts == SelectSeq(reads, LAMBDA r : r.alt)
     IN [i \in DOMAIN alts |-> [variant |-> alts[i].name, region |-> region]],
   gvcfs |-> IF include_gvcfs
             THEN <<[gvcf |-> region, depth |-> Len(reads)]>>
             ELSE <<>>]

candidates_in_region_NoGvcfGate(rp, region) ==
  LET reads == sam_query(Val(rp.in_memory_sam_reader), region)
      called == calls_and_gvcfs(reads, region, gvcf_output_enabled(rp.options))
  IN IF reads = <<>>
     THEN [rp |-> rp, candidates |-> <<>>, gvcfs |-> <<>>, invoked |-> FALSE]
     ELSE [rp |-> [rp EXCEPT !.caller_calls = @ + 1],
           candidates |-> called.candidates, gvcfs |-> called.gvcfs,
           invoked |-> TRUE]
candidates_in_region(rp, region) ==
  LET reads == sam_query(Val(rp.in_memory_sam_reader), region)
      called == calls_and_gvcfs(reads, region, gvcf_output_enabled(rp.options))
  IN IF reads = <<>> /\ ~gvcf_output_enabled(rp.options)
     THEN [rp |-> rp, candidates |-> <<>>, gvcfs |-> <<>>, invoked |-> FALSE]
     ELSE [rp |-> [rp EXCEPT !.caller_calls = @ + 1],
           candidates |-> called.candidates, gvcfs |-> called.gvcfs,
           invoked |-> TRUE]

\* The pileup example of a candidate in calling mode, made from the reads of
\* the in-memory reader.
pileup_example(rp, candidate) ==
  LET reads == sam_query(Val(rp.in_memory_sam_reader), candidate.region)
  IN [variant |-> candidate.variant,
      pileup |-> [i \in DOMAIN reads |-> reads[i].name]]

\* process in calling mode, without variant type selection and allele
\* frequencies: the processor afterwards and the values returned.
process(rp, reads_file, region) ==
  LET init == IF ~rp.initialized THEN initialize(rp)
              ELSE [err |-> "none", rp |-> rp]
      gathered == region_reads(init.rp, reads_file, region)
      rp1 == store_reads(init.rp, gathered.reads)
      found == candidates_in_region(rp1, region)
  IN IF init.err # "none"
     THEN [err |-> init.err, message |-> <<>>, rp |-> init.rp,
           initialized_by_call |-> FALSE,
           candidates |-> <<>>, examples |-> <<>>, gvcfs |-> <<>>,
           invoked |-> FALSE, reads |-> <<>>, queries |-> <<>>,
           realign_calls |-> <<>>]
     ELSE IF gathered.err # "none"
     THEN [err |-> gathered.err, message |-> gathered.message,
           rp |-> init.rp, initialized_by_call |-> ~rp.initialized,
           candidates |-> <<>>, examples |-> <<>>, gvcfs |-> <<>>,
           invoked |-> FALSE, reads |-> <<>>, queries |-> gathered.queries,
           realign_calls |-> <<>>]
     ELSE [err |-> "none", message |-> <<>>, rp |-> found.rp,
           initialized_by_call |-> ~rp.initialized,
           candidates |-> found.candidates,
           examples |-> [i \in DOMAIN found.candidates |->
                           pileup_example(found.rp, found.candidates[i])],
           gvcfs |-> found.gvcfs, invoked |-> found.invoked,
           reads |-> gathered.reads, queries |-> gathered.queries,
           realign_calls |-> gathered.realign_calls]

\* ---- one RegionProcessor under any sequence of initialize and process calls

\* Three regions; no read overlaps r3.  Read b is longer than the longest
\* read that is realigned, read c is as long, read a is shorter.
ProcessorRegions == {"r1", "r2", "r3"}
AlignedLength(name) ==
  CASE name = "b" -> max_read_length_to_realign + 1
    [] name = "c" -> max_read_length_to_realign
    [] OTHER -> 100
Read(name, regions, alt) ==
  [name |-> name, regions |-> regions, alt |-> alt,
   aligned_sequence |-> AlignedLength(name), source |-> 1,
   realigned |-> FALSE, fault |-> <<>>]
ReadsFiles ==
  {SelectSeq(<<Read("a", {"r1"}, TRUE), Read("b", {"r1", "r2"}, TRUE),
               Read("c", {"r1"}, FALSE)>>,
             LAMBDA r : r.name \in keep) : keep \in SUBSET {"a", "b", "c"}}
ProcessorOptions ==
  [gvcf_filename : {"", "gvcf"}, max_reads_per_partition : {0, 1, 2},
   random_seed : {0, 1}, realigner_enabled : BOOLEAN]

InitProcessor ==
  /\ rp_self \in {RegionProcessor(o) : o \in ProcessorOptions}
  /\ rp_reads_file \in ReadsFiles
  /\ rp_log = <<>>
  /\ EarlyIdle /\ ToolIdle /\ FreqIdle /\ WriterIdle /\ RunIdle

CallInitialize ==
  /\ Len(rp_log) < MaxCalls
  /\ LET res == initialize(rp_self)
     IN /\ rp_self' = res.rp
        /\ rp_log' = Append(rp_log, [op |-> "initialize", err |-> res.err,
                                     before |-> rp_self, after |-> res.rp])
  /\ UNCHANGED rp_reads_file
  /\ UNCHANGED <<earlyVars, toolVars, freqVars, writerVars, runVars>>

CallProcess ==
  /\ Len(rp_log) < MaxCalls
  /\ \E region \in ProcessorRegions :
       LET res == process(rp_self, rp_reads_file, region)
       IN /\ rp_self' = res.rp
          /\ rp_log' = Append(rp_log,
                              [op |-> "process", err |-> res.err,
                               before |-> rp_self, after |-> res.rp,
                               region |-> region,
                               initialized_by_call |-> res.initialized_by_call,
                               invoked |-> res.invoked,
                               candidates |-> res.candidates,
                               examples |-> res.examples,
                               gvcfs |-> res.gvcfs,
                               reads |-> res.reads,
                               queries |-> res.queries,
                               realign_calls |-> res.realign_calls])
  /\ UNCHANGED rp_reads_file
  /\ UNCHANGED <<earlyVars, toolVars, freqVars, writerVars, runVars>>

NextProcessor == CallInitialize \/ CallProcess
SpecProcessor == InitProcessor /\ [][NextProcessor]_vars

ProcessCalls == {i \in DOMAIN rp_log : rp_log[i].op = "process"}
Returned(e) == <<e.candidates, e.examples, e.gvcfs>>

\* C17: what process returns for a region does not depend on the calls made
\* before on the same processor: two calls for one region return the same
\* candidates, examples and gVCF records, which are those a new processor
\* returns; after a call the in-memory reader holds reads of that region
\* only, each once.
C17_Theorem ==
  /\ \A i \in ProcessCalls, j \in ProcessCalls :
       rp_log[i].region = rp_log[j].region =>
         Returned(rp_log[i]) = Returned(rp_log[j])
  /\ \A i \in ProcessCalls :
       LET fresh == process(RegionProcessor(rp_self.options), rp_reads_file,
                            rp_log[i].region)
           store == Val(rp_log[i].after.in_memory_sam_reader)
       IN /\ rp_log[i].err = "none"
          /\ Returned(rp_log[i]) = Returned(fresh)
          /\ \A k \in DOMAIN store : rp_log[i].region \in store[k].regions
          /\ \A k \in DOMAIN store, l \in DOMAIN store :
               store[k] = store[l] => k = l
\* r1 was processed, then r2, then r1 again, with down-sampling to one of
\* several reads, and the first call found a candidate.
C17_Witness ==
  /\ Len(rp_log) = 3 /\ ProcessCalls = {1, 2, 3}
  /\ rp_log[1].region = "r1" /\ rp_log[2].region = "r2"
  /\ rp_log[3].region = "r1"
  /\ rp_self.options.max_reads_per_partition = 1
  /\ Len(sam_query(rp_reads_file, "r1")) = 3
  /\ rp_log[2].candidates # <<>>
  /\ rp_log[3].candidates # <<>>

\* C19: the resources are constructed at most once; process calls
\* initialize exactly when the processor is not initialized; initialize on
\* an initialized processor raises and changes no field; initialized, once
\* true, stays true.
C19_Theorem ==
  /\ rp_self.made <= 1
  /\ rp_self.initialized = (rp_self.made = 1)
  /\ \A i \in DOMAIN rp_log :
       LET e == rp_log[i]
       IN /\ e.before.initialized => e.after.initialized
          /\ i > 1 => e.before = rp_log[i - 1].after
          /\ e.op = "process" =>
               /\ e.initialized_by_call = ~e.before.initialized
               /\ e.after.made = e.before.made
                                 + (IF e.before.initialized THEN 0 ELSE 1)
               /\ e.after.initialized
          /\ (e.op = "initialize" /\ e.before.initialized) =>
               (e.err = "ValueError" /\ e.after = e.before)
          /\ (e.op = "initialize" /\ ~e.before.initialized) =>
               (e.err = "none" /\ e.after.initialized /\ e.after.made = 1)
\* process initialized the processor, then initialize was called and raised,
\* then process ran again.
C19_Witness ==
  /\ Len(rp_log) = 3
  /\ rp_log[1].op = "process" /\ rp_log[1].initialized_by_call
  /\ rp_log[2].op = "initialize" /\ rp_log[2].err = "ValueError"
  /\ rp_log[3].op = "process" /\ ~rp_log[3].initialized_by_call
  /\ rp_self.made = 1

\* The reads of a region after sampling, before the realigner.
GatheredReads(region) ==
  LET reads == sam_query(rp_reads_file, region)
      k == rp_self.options.max_reads_per_partition
  IN IF k > 0
     THEN reservoir_sample(reads, k, RandomState(rp_self.options.random_seed),
                           Len(reads)).sample
     ELSE reads
LongReads(reads) ==
  SelectSeq(reads, LAMBDA r : r.aligned_sequence > max_read_length_to_realign)
ShortReads(reads) ==
  SelectSeq(reads, LAMBDA r : r.aligned_sequence <= max_read_length_to_realign)

\* C27: with the realigner enabled region_reads returns the gathered reads
\* longer than 500 as they are and in gathered order, followed by what the
\* engine returns for the gathered reads of length at most 500; the engine is
\* called once, with exactly those reads, so no read longer than 500 is given
\* to it, and every gathered read is in one of the two groups and not in
\* both; with the realigner disabled the gathered reads are returned as they
\* are and the engine is not called.
C27_Theorem ==
  \A i \in ProcessCalls :
    LET e == rp_log[i]
        reads == GatheredReads(e.region)
        long == LongReads(reads)
        short == ShortReads(reads)
    IN /\ e.after.in_memory_sam_reader = Some(e.reads)
       /\ IF rp_self.options.realigner_enabled
          THEN /\ e.reads = long \o realign_reads(short, e.region).reads
               /\ SubSeq(e.reads, 1, Len(long)) = long
               /\ e.realign_calls = <<[reads |-> short, region |-> e.region]>>
               /\ \A c \in DOMAIN e.realign_calls :
                    \A k \in DOMAIN e.realign_calls[c].reads :
                      e.realign_calls[c].reads[k].aligned_sequence
                        <= max_read_length_to_realign
               /\ Len(long) + Len(short) = Len(reads)
               /\ \A k \in DOMAIN reads :
                    (\E l \in DOMAIN long : long[l] = reads[k])
                      # (\E l \in DOMAIN short : short[l] = reads[k])
          ELSE e.reads = reads /\ e.realign_calls = <<>>
\* With the realigner enabled a region was processed whose reads are a short
\* one, then a long one, then one of length 500: the long read is returned
\* first, as it was, and the other two as the engine returned them.
C27_Witness ==
  /\ rp_self.options.realigner_enabled
  /\ rp_self.options.max_reads_per_partition = 0
  /\ \E i \in ProcessCalls :
       /\ rp_log[i].region = "r1"
       /\ Len(rp_log[i].reads) = 3
       /\ rp_log[i].reads[1] = Read("b", {"r1", "r2"}, TRUE)
       /\ rp_log[i].reads[2].name = "a" /\ rp_log[i].reads[2].realigned
       /\ rp_log[i].reads[3].name = "c" /\ rp_log[i].reads[3].realigned
       /\ Len(rp_log[i].realign_calls[1].reads) = 2

\* ------------------------------------------------------ make_examples_runner
\* The run from the region list on: the processor is made and initialized,
\* the OutputsWriter is constructed and entered by the with statement, the
\* loop body runs once per region, and the with statement calls __exit__
\* when the block ends or an exception leaves it.  d_log lists the calls of
\* process and of the write operations with what they were given.

RunnerOptions ==
  [candidates_filename : Filenames, examples_filename : Filenames,
   gvcf_filename : Filenames, runtime_by_region : Filenames,
   run_info_filename : Filenames,
   max_reads_per_partition : {0, 1}, random_seed : {0},
   realigner_enabled : {TRUE}]
\* Region lists as the partitioner returns them: no region twice.
RegionLists ==
  {<<>>, <<"r1">>, <<"r1", "r2">>, <<"r2", "r1">>, <<"r3", "r1", "r2">>}
RunnerReadsFiles ==
  {<<Read("b", {"r1", "r2"}, TRUE)>>,
   <<Read("a", {"r1"}, TRUE), Read("b", {"r1", "r2"}, TRUE),
     Read("c", {"r1"}, FALSE)>>}
\* The errors of a query, with the reads file they come from: of a record
\* that cannot be decoded, of a region on a contig the file does not have,
\* and any other.
QueryErrors ==
  {[source |-> 1, message |-> <<"Data loss:", " truncated record">>],
   [source |-> 2,
    message |-> <<"Not found: Unknown reference_name ", "chrX">>],
   [source |-> 2, message |-> <<"Invalid argument:", " bad interval">>]}
Unreadable(source, region, error_message) ==
  [name |-> "unreadable", regions |-> {region}, alt |-> FALSE,
   aligned_sequence |-> 0, source |-> source, realigned |-> FALSE,
   fault |-> error_message]
\* The reads files, one of them unreadable at the region of the fault.
FaultyReadsFiles(fault) ==
  IF fault = None THEN RunnerReadsFiles
  ELSE {<<Unreadable(e.source, Val(fault), e.message)>> \o reads_file :
          reads_file \in RunnerReadsFiles, e \in QueryErrors}
\* At most one constructor or release of a sink fails.
Failures ==
  {{}} \cup {{<<k, what>>} : k \in Sinks, what \in {"open", "release"}}

InitRunner ==
  /\ w_options \in RunnerOptions
  /\ w_writers = NoWriters /\ w_dest = NoDest /\ w_written = NoRecords
  /\ w_fail \in Failures /\ w_call = NotCalled /\ w_pc = "new"
  /\ rp_self = [initialized |-> FALSE]
  /\ d_fault \in {None} \cup {Some(r) : r \in {"r1", "r2"}}
  /\ rp_reads_file \in FaultyReadsFiles(d_fault) /\ rp_log = <<>>
  /\ d_regions \in RegionLists
  /\ d_done = 0 /\ d_totals = <<0, 0, 0>> /\ d_log = <<>>
  /\ d_raised = "none" /\ d_pc = "start" /\ d_run_info = None
  /\ EarlyIdle /\ ToolIdle /\ FreqIdle

\* Lines 2085-2086.
MakeProcessor ==
  /\ d_pc = "start"
  /\ rp_self' = initialize(RegionProcessor(w_options)).rp
  /\ d_pc' = "prepared"
  /\ UNCHANGED <<rp_reads_file, rp_log>>
  /\ UNCHANGED <<d_regions, d_done, d_totals, d_log, d_fault, d_raised,
                 d_run_info>>
  /\ UNCHANGED <<earlyVars, toolVars, freqVars, writerVars>>

\* Line 2099: OutputsWriter(options), then __enter__.  An exception of the
\* constructor leaves the run without __exit__.
WithOutputsWriter ==
  /\ d_pc = "prepared"
  /\ LET res == OutputsWriter_init(w_options, w_fail)
     IN /\ SetWriter(res.st)
        /\ w_pc' = IF res.err = "none" THEN "entered" ELSE "raised"
        /\ d_pc' = IF res.err = "none" THEN "loop" ELSE "raised"
        /\ d_raised' = res.err
  /\ UNCHANGED <<w_options, w_fail, w_call>>
  /\ UNCHANGED <<d_regions, d_done, d_totals, d_log, d_fault, d_run_info>>
  /\ UNCHANGED <<earlyVars, toolVars, freqVars, procVars>>

\* Lines 2112-2125 for the values process returned: the writer afterwards
\* and the write operations called, in order, with what they were given.
Call(op, region, items) == [op |-> op, region |-> region, items |-> items]
write_outputs_ExamplesFirst(st, opts, region, res) ==
  LET e == write_examples(st, Len(res.examples)).st
      c == write_candidates(e, Len(res.candidates)).st
      g == IF res.gvcfs # <<>> THEN write_gvcfs(c, Len(res.gvcfs)).st ELSE c
      r == IF opts.runtime_by_region # "" THEN write_runtime(g)
           ELSE [err |-> "none", st |-> g]
  IN [err |-> r.err, st |-> r.st,
      calls |->
        <<Call("write_examples", region, res.examples),
          Call("write_candidates", region, res.candidates)>>
        \o (IF res.gvcfs # <<>>
            THEN <<Call("write_gvcfs", region, res.gvcfs)>> ELSE <<>>)
        \o (IF opts.runtime_by_region # ""
            THEN <<Call("write_runtime", region, <<region>>)>> ELSE <<>>)]
write_outputs(st, opts, region, res) ==
  LET c == write_candidates(st, Len(res.candidates)).st
      g == IF res.gvcfs # <<>> THEN write_gvcfs(c, Len(res.gvcfs)).st ELSE c
      e == write_examples(g, Len(res.examples)).st
      r == IF opts.runtime_by_region # "" THEN write_runtime(e)
           ELSE [err |-> "none", st |-> e]
  IN [err |-> r.err, st |-> r.st,
      calls |->
        <<Call("write_candidates", region, res.candidates)>>
        \o (IF res.gvcfs # <<>>
            THEN <<Call("write_gvcfs", region, res.gvcfs)>> ELSE <<>>)
        \o <<Call("write_examples", region, res.examples)>>
        \o (IF opts.runtime_by_region # ""
            THEN <<Call("write_runtime", region, <<region>>)>> ELSE <<>>)]

\* The call of process, as logged.
ProcessCall(region, res) ==
  [op |-> "process", region |-> region, err |-> res.err,
   invoked |-> res.invoked, candidates |-> res.candidates,
   examples |-> res.examples, gvcfs |-> res.gvcfs]

\* One round of the loop, lines 2105-2135: the next region is processed, the
\* totals are updated and the outputs written.  An exception of process
\* leaves the block.
ProcessRegion ==
  /\ d_pc = "loop" /\ d_done < Len(d_regions)
  /\ LET region == d_regions[d_done + 1]
         res == process(rp_self, rp_reads_file, region)
         out == write_outputs(CurrentWriter, w_options, region, res)
     IN IF res.err # "none"
        THEN /\ d_log' = Append(d_log, [op |-> "process", region |-> region,
                                        err |-> res.err,
                                        message |-> res.message,
                                        queries |-> res.queries])
             /\ rp_self' = res.rp
             /\ d_raised' = res.err /\ d_pc' = "leaving"
             /\ UNCHANGED <<w_writers, w_dest, w_written, d_done, d_totals>>
        ELSE /\ rp_self' = res.rp
             /\ d_totals' = <<d_totals[1] + 1,
                              d_totals[2] + Len(res.candidates),
                              d_totals[3] + Len(res.examples)>>
             /\ SetWriter(out.st)
             /\ d_log' = Append(d_log, ProcessCall(region, res)) \o out.calls
             /\ d_done' = d_done + 1
             /\ d_raised' = out.err
             /\ d_pc' = IF out.err = "none" THEN "loop" ELSE "leaving"
  /\ UNCHANGED <<w_options, w_fail, w_call, w_pc>>
  /\ UNCHANGED <<rp_reads_file, rp_log, d_regions, d_fault, d_run_info>>
  /\ UNCHANGED <<earlyVars, toolVars, freqVars>>

\* The with statement calls __exit__ when the loop is over or an exception
\* leaves the block; an exception of __exit__ leaves the run.
WithExit ==
  /\ \/ d_pc = "loop" /\ d_done = Len(d_regions)
     \/ d_pc = "leaving"
  /\ LET res == OutputsWriter_exit(CurrentWriter, w_fail)
         exc == IF res.err # "none" THEN res.err ELSE d_raised
     IN /\ SetWriter(res.st)
        /\ w_pc' = IF res.err = "none" THEN "exited" ELSE "raised"
        /\ d_raised' = exc
        /\ d_pc' = IF exc = "none" THEN "done" ELSE "raised"
  /\ UNCHANGED <<w_options, w_fail, w_call>>
  /\ UNCHANGED <<d_regions, d_done, d_totals, d_log, d_fault, d_run_info>>
  /\ UNCHANGED <<earlyVars, toolVars, freqVars, procVars>>

\* Lines 2137-2152, reached when the with statement ended without an
\* exception: the run info is written when run_info_filename is set.
WriteRunInfo ==
  /\ d_pc = "done"
  /\ d_run_info' = IF w_options.run_info_filename # ""
                   THEN Some([path |-> w_options.run_info_filename,
                              options |-> w_options])
                   ELSE None
  /\ d_pc' = "returned"
  /\ UNCHANGED <<d_regions, d_done, d_totals, d_log, d_fault, d_raised>>
  /\ UNCHANGED <<earlyVars, toolVars, freqVars, procVars, writerVars>>

NextRunner ==
  \/ MakeProcessor \/ WithOutputsWriter \/ ProcessRegion \/ WithExit
  \/ WriteRunInfo
SpecRunner == InitRunner /\ [][NextRunner]_vars

\* C15 (as claimed): when the with block has ended, normally or by an
\* exception, or could not be entered, no sink that was opened is left
\* unreleased, also when the constructor or the release of another sink
\* fails.
C15_Claim ==
  d_pc \in {"done", "raised"} => \A k \in Sinks : w_dest[k] # "open"

\* The calls of process in d_log (their indices), and the regions they were
\* made for, in order.
ProcessEvents == {i \in DOMAIN d_log : d_log[i].op = "process"}
ProcessedRegions ==
  LET calls == SelectSeq(d_log, LAMBDA e : e.op = "process")
  IN [i \in DOMAIN calls |-> calls[i].region]
\* The calls logged after the i-th entry up to the next call of process.
RECURSIVE WritesAfter(_)
WritesAfter(i) ==
  IF i + 1 > Len(d_log) \/ d_log[i + 1].op = "process" THEN <<>>
  ELSE <<d_log[i + 1]>> \o WritesAfter(i + 1)
RECURSIVE SumLen(_, _)
SumLen(S, field) ==
  IF S = {} THEN 0
  ELSE LET i == CHOOSE x \in S : TRUE
       IN Len(d_log[i][field]) + SumLen(S \ {i}, field)

\* C20: process is called for the regions of the list in list order, once
\* each; after each call that returns, candidates, then the gVCF records (if
\* there are any), then examples, then the runtime row (if runtime_by_region
\* is set) are written before the next region; at the end n_regions,
\* n_candidates and n_examples are the number of regions and the summed
\* lengths of the returned lists.
C20_Theorem ==
  /\ ProcessedRegions = SubSeq(d_regions, 1, Len(ProcessedRegions))
  /\ \A i \in ProcessEvents, j \in ProcessEvents :
       d_log[i].region = d_log[j].region => i = j
  /\ d_log # <<>> => d_log[1].op = "process"
  /\ \A i \in ProcessEvents :
       LET e == d_log[i]
           after == WritesAfter(i)
       IN IF e.err # "none" THEN after = <<>> /\ i = Len(d_log)
          ELSE after =
                 <<Call("write_candidates", e.region, e.candidates)>>
                 \o (IF e.gvcfs # <<>>
                     THEN <<Call("write_gvcfs", e.region, e.gvcfs)>> ELSE <<>>)
                 \o <<Call("write_examples", e.region, e.examples)>>
                 \o (IF w_options.runtime_by_region # ""
                     THEN <<Call("write_runtime", e.region, <<e.region>>)>>
                     ELSE <<>>)
  /\ d_pc = "done" =>
       /\ ProcessedRegions = d_regions
       /\ d_totals = <<Len(d_regions), SumLen(ProcessEvents, "candidates"),
                       SumLen(ProcessEvents, "examples")>>
\* A run over three regions ended normally with every sink bound and
\* candidates found.
C20_Witness ==
  /\ d_pc = "done" /\ Len(d_regions) = 3 /\ OptionSinks = Sinks
  /\ d_totals[1] = 3 /\ d_totals[2] > 1 /\ Len(d_log) = 15

\* The reads of a region, as the processor gets them.
RegionHasReads(region) == sam_query(rp_reads_file, region) # <<>>

\* C18: candidates_in_region returns ([], []) without invoking the variant
\* caller exactly when the region has no reads and gVCF output is disabled;
\* with gVCF output enabled the caller is invoked for every processed
\* region, process returns the caller's gVCF records as they are, and the
\* driver writes them to the gvcf sink.
C18_Theorem ==
  /\ \A i \in ProcessEvents :
       LET e == d_log[i]
           gvcf == gvcf_output_enabled(w_options)
       IN e.err = "none" =>
            /\ ~e.invoked = (~RegionHasReads(e.region) /\ ~gvcf)
            /\ ~e.invoked => (e.candidates = <<>> /\ e.gvcfs = <<>>)
            /\ gvcf =>
                 /\ e.invoked
                 /\ e.gvcfs =
                      calls_and_gvcfs(
                        region_reads(rp_self, rp_reads_file, e.region).reads,
                        e.region, TRUE).gvcfs
                 /\ e.gvcfs # <<>> =>
                      /\ d_log[i + 2] = Call("write_gvcfs", e.region, e.gvcfs)
                      /\ w_writers["gvcfs"] # None
  /\ (d_pc \in {"loop", "leaving"} /\ gvcf_output_enabled(w_options)) =>
       w_written["gvcfs"] = SumLen({i \in ProcessEvents : d_log[i].err = "none"},
                                   "gvcfs")
\* With gVCF output enabled the region without reads was processed: the
\* caller was invoked and its gVCF record written.
C18_Witness ==
  /\ gvcf_output_enabled(w_options) /\ d_pc = "done"
  /\ \E i \in ProcessEvents :
       /\ d_log[i].region = "r3" /\ d_log[i].err = "none" /\ d_log[i].invoked
       /\ d_log[i].candidates = <<>> /\ Len(d_log[i].gvcfs) = 1
  /\ w_written["gvcfs"] = 3

\* ------------------------------------------- a query of the reads that raises

\* The calls of process that raised, and whether a log holds one.
FailedEvents == {i \in ProcessEvents : d_log[i].err # "none"}
FailedIn(log) ==
  \E i \in DOMAIN log : log[i].op = "process" /\ log[i].err # "none"
\* The error of the reads files for a region, and its file.
FaultAt(region) ==
  CHOOSE r \in Range(rp_reads_file) : r.fault # <<>> /\ region \in r.regions

\* What holds in every state after process raised for a region whose reads
\* cannot be read.
C29_State ==
  /\ \A i \in ProcessEvents :
       (d_log[i].err # "none") = (d_fault = Some(d_log[i].region))
  /\ \A i \in FailedEvents :
       LET e == d_log[i]
           raw == FaultAt(e.region)
       IN /\ e.err = "ValueError"
          /\ e.message =
               (CASE raw.fault[1] = "Data loss:" ->
                       raw.fault \o <<"\nFailed to parse BAM/CRAM file. ">>
                  [] raw.fault[1] = "Not found: Unknown reference_name " ->
                       raw.fault \o <<"\nThe region ", e.region,
                                      " does not exist in ",
                                      reads_filenames[raw.source], ".">>
                  [] OTHER -> raw.fault)
          /\ e.queries = [k \in 1..raw.source |-> k]
          /\ i = Len(d_log)
          /\ Cardinality(ProcessEvents) = d_done + 1
          /\ d_totals[1] = d_done
          /\ d_pc \in {"leaving", "raised"}
          /\ d_raised # "none"
          /\ w_fail = {} => d_raised = "ValueError"
          /\ d_run_info = None
\* What holds of every step that ends with the failure in the log: nothing
\* is written and nothing more is called, and the step after the failure
\* leaves the run with the exception.
C29_Step ==
  FailedIn(d_log') =>
    /\ w_written' = w_written
    /\ d_totals' = d_totals
    /\ FailedIn(d_log) => d_log' = d_log
    /\ d_pc = "leaving" => d_pc' = "raised"

\* C29: when a query of the reads raises while process gathers the reads of
\* a region, ValueError leaves process and the run (with the text added for
\* data loss and for an unknown reference name, as it was otherwise); the
\* query is made once, nothing is written for the region, no later region is
\* processed, what was written for earlier regions stays, and the run info
\* is not written.
C29_Theorem == []C29_State /\ [][C29_Step]_vars
\* Of the regions r3, r1, r2 the first was processed and its gVCF record
\* written; the second reads file does not know the contig of r1, the run
\* ended with ValueError, r2 was not processed and the run info, though
\* asked for, was not written.
C29_Witness ==
  /\ d_pc = "raised" /\ d_raised = "ValueError"
  /\ d_regions = <<"r3", "r1", "r2">> /\ d_fault = Some("r1")
  /\ w_options.run_info_filename # "" /\ d_run_info = None
  /\ w_written["gvcfs"] = 1
  /\ ProcessedRegions = <<"r3", "r1">>
  /\ d_log[Len(d_log)].op = "process"
  /\ d_log[Len(d_log)].queries = <<1, 2>>
  /\ d_log[Len(d_log)].message[1] = "Not found: Unknown reference_name "
  /\ Len(d_log[Len(d_log)].message) = 7

\* ------------------------------------- default_options: parse_sam_aux_fields

\* Lines 402-409.  The return of line 408 is in the body of the loop, after
\* the if of line 404 and not under it: the first flag name ends the call
\* with True whatever its value; False is returned for an empty list only.
set_parse_sam_aux_fields(obj, flag_names) ==
  IF Len(flag_names) > 0 THEN TRUE ELSE FALSE

\* Lines 563-565.
flags_that_needs_sam_aux_fields ==
  <<"add_hp_channel", "sort_by_haplotypes", "use_original_quality_scores">>

\* Lines 562-567: the value of flags_obj.parse_sam_aux_fields after them.
parse_sam_aux_fields_after(obj) ==
  IF obj.parse_sam_aux_fields = None
  THEN Some(set_parse_sam_aux_fields(obj, flags_that_needs_sam_aux_fields))
  ELSE obj.parse_sam_aux_fields

\* Lines 562-606 of default_options: the flags after the call and the
\* exception raised.  `not flags_obj.parse_sam_aux_fields` holds for False.
default_options(obj) ==
  LET after == [obj EXCEPT
                  !.parse_sam_aux_fields = parse_sam_aux_fields_after(obj)]
      parse == Val(after.parse_sam_aux_fields)
  IN [flags_obj |-> after,
      err |->
        IF /\ after.sort_by_haplotypes \/ after.use_original_quality_scores
           /\ ~parse
        THEN "CommandLineError"
        ELSE IF after.sort_by_haplotypes_sample_hp_tag < 0
        THEN "CommandLineError"
        ELSE IF /\ after.sort_by_haplotypes_sample_hp_tag > 0
                /\ ~after.sort_by_haplotypes
        THEN "CommandLineError"
        ELSE IF after.sort_by_haplotypes /\ ~parse
        THEN "CommandLineError"
        ELSE "none"]

\* ---- inputs: every value of the four flags, and three values of the tag

HpTags == {-1, 0, 1}
FlagValues ==
  [parse_sam_aux_fields : {None, Some(TRUE), Some(FALSE)},
   add_hp_channel : BOOLEAN,
   sort_by_haplotypes : BOOLEAN,
   use_original_quality_scores : BOOLEAN,
   sort_by_haplotypes_sample_hp_tag : HpTags]

InitFlags ==
  /\ flags_obj \in FlagValues
  /\ fl_user = flags_obj.parse_sam_aux_fields
  /\ fl_raised = "not called"
  /\ EarlyIdle /\ FreqIdle /\ WriterIdle /\ ProcIdle /\ RunIdle
  /\ TrioIdle /\ SelIdle

DefaultOptions ==
  /\ fl_raised = "not called"
  /\ LET r == default_options(flags_obj)
     IN /\ flags_obj' = r.flags_obj
        /\ fl_raised' = r.err
  /\ UNCHANGED fl_user
  /\ UNCHANGED <<earlyVars, freqVars, writerVars, procVars, runVars>>
  /\ UNCHANGED <<trioVars, selVars>>

NextFlags == DefaultOptions
SpecFlags == InitFlags /\ [][NextFlags]_vars

\* Some flag that needs the auxiliary fields is true.
SomeNamedFlag ==
  \/ flags_obj.add_hp_channel
  \/ flags_obj.sort_by_haplotypes
  \/ flags_obj.use_original_quality_scores

\* C23: after default_options, a --parse_sam_aux_fields the user left unset
\* is true if and only if add_hp_channel, sort_by_haplotypes or
\* use_original_quality_scores is true, and a value the user set is kept.
C23_Claim ==
  fl_raised # "not called" =>
    /\ fl_user = None =>
         (flags_obj.parse_sam_aux_fields = Some(TRUE) <=> SomeNamedFlag)
    /\ fl_user = None => flags_obj.parse_sam_aux_fields # None
    /\ fl_user # None => flags_obj.parse_sam_aux_fields = fl_user

\* The part of C23 that holds: a value the user set is kept.
C23_UserValueKept ==
  fl_raised # "not called" /\ fl_user # None =>
    flags_obj.parse_sam_aux_fields = fl_user

\* --------------------------------------------- run_deeptrio: the commands
\* A command is the list of the strings that ' '.join puts together.  A
\* Python value of a flag dict is a record with one field: [b |-> ...] a
\* bool, [i |-> ...] an int, [f |-> ...] a float by its text, [s |-> ...] a
\* str and [none |-> TRUE] None.

MaxExtraArgs == 2

PyNone == [none |-> TRUE]
PyStr(x) == [s |-> x]
PyBool(x) == [b |-> x]
IsNone(value) == DOMAIN value = {"none"}
IsBool(value) == DOMAIN value = {"b"}
IsStr(value) == DOMAIN value = {"s"}
\* An optional string flag as a value of a dict.
OfFlag(flag) == IF flag = None THEN PyNone ELSE PyStr(Val(flag))

\* '{}'.format(value)
Format(value) ==
  IF DOMAIN value = {"i"} THEN ToString(value.i)
  ELSE IF DOMAIN value = {"f"} THEN value.f
  ELSE value.s

\* Line 178-180 and os.path.join.
Join(directory, name) == directory \o "/" \o name
Pattern3(a, b, c) == a \o "_" \o b \o "." \o c
Quoted(x) == "\"" \o x \o "\""

MODEL_TYPE_MAP ==
  [key \in {"WGS_child", "WGS_parent", "WES_child", "WES_parent",
            "PACBIO_child", "PACBIO_parent"} |->
     CASE key = "WGS_child" -> "/opt/models/deeptrio/wgs/child/model.ckpt"
       [] key = "WGS_parent" -> "/opt/models/deeptrio/wgs/parent/model.ckpt"
       [] key = "WES_child" -> "/opt/models/deeptrio/wes/child/model.ckpt"
       [] key = "WES_parent" -> "/opt/models/deeptrio/wes/parent/model.ckpt"
       [] key = "PACBIO_child" ->
            "/opt/models/deeptrio/pacbio/child/model.ckpt"
       [] key = "PACBIO_parent" ->
            "/opt/models/deeptrio/pacbio/parent/model.ckpt"]

DEEP_TRIO_WGS_PILEUP_HEIGHT_CHILD == 60
DEEP_TRIO_WGS_PILEUP_HEIGHT_PARENT == 40
DEEP_TRIO_WES_PILEUP_HEIGHT_CHILD == 100
DEEP_TRIO_WES_PILEUP_HEIGHT_PARENT == 100

CHILD == "child"
PARENT1 == "parent1"
PARENT2 == "parent2"
CALL_VARIANTS_OUTPUT_COMMON_SUFFIX == "tfrecord.gz"

call_variants_output_common_prefix(intermediate_results_dir) ==
  Join(intermediate_results_dir, "call_variants_output")
examples_common_suffix(num_shards) ==
  "tfrecord@" \o ToString(num_shards) \o ".gz"
examples_common_prefix(intermediate_results_dir) ==
  Join(intermediate_results_dir, "make_examples")
nonvariant_site_tfrecord_common_suffix(intermediate_results_dir) ==
  Join(intermediate_results_dir, "gvcf")
examples_common_name(intermediate_results_dir, num_shards) ==
  examples_common_prefix(intermediate_results_dir) \o "."
    \o examples_common_suffix(num_shards)

\* The texts of the model that start and end with a quote (lines 205-210).
QuotedTexts == {"\"rows\""}
is_quoted(value) == value \in QuotedTexts
add_quotes(value) ==
  IF IsStr(value) /\ is_quoted(value.s) THEN value.s
  ELSE Quoted(Format(value))

\* str.lower on the flag values of the model.
Lower(text) ==
  IF text \in {"TRUE", "True", "true"} THEN "true"
  ELSE IF text \in {"FALSE", "False", "false"} THEN "false"
  ELSE text

\* Lines 219-232.  extra_args is None or the list of the <<flag_name,
\* flag_value>> pairs that split(',') and split('=') cut the string into.
RECURSIVE ExtraArgsLoop(_, _)
ExtraArgsLoop(args_dict, items) ==
  IF items = <<>> THEN args_dict
  ELSE LET flag_name == Head(items)[1]
           text == Head(items)[2]
           flag_value == IF Lower(text) = "true" THEN PyBool(TRUE)
                         ELSE IF Lower(text) = "false" THEN PyBool(FALSE)
                         ELSE PyStr(text)
       IN ExtraArgsLoop(Put(args_dict, flag_name, flag_value), Tail(items))
extra_args_to_dict(extra_args) ==
  IF extra_args = None THEN EmptyDict
  ELSE ExtraArgsLoop(EmptyDict, Val(extra_args))

\* The flag names of the model in the order of sorted().
FlagOrder ==
  <<"alt_aligned_pileup", "gvcf", "pileup_image_height_child",
    "pileup_image_height_parent", "realign_reads", "regions",
    "vsc_min_fraction_indels">>
Sorted(keys) == SelectSeq(FlagOrder, LAMBDA key : key \in keys)

\* Lines 238-246 for one key.
ArgOf(key, value) ==
  IF IsNone(value) THEN <<>>
  ELSE IF IsBool(value)
  THEN <<"--" \o (IF value.b THEN "" ELSE "no") \o key>>
  ELSE <<"--" \o key, add_quotes(value)>>


RECURSIVE ExtendLoop(_, _, _)
ExtendLoop(command, keys, extra_args) ==
  IF keys = <<>> THEN command
  ELSE ExtendLoop(command \o ArgOf(Head(keys), extra_args[Head(keys)]),
                  Tail(keys), extra_args)
\* Lines 235-247.
extend_command_by_args_dict(command, extra_args) ==
  ExtendLoop(command, Sorted(DOMAIN extra_args), extra_args)

\* Lines 250-256 with the defaults kept (the extra value is dropped).
update_kwargs_with_warning_KeepFirst(kwargs, extra_args) ==
  [k \in DOMAIN kwargs \cup DOMAIN extra_args |->
     IF k \in DOMAIN kwargs THEN kwargs[k] ELSE extra_args[k]]
\* Lines 250-256.
update_kwargs_with_warning(kwargs, extra_args) ==
  [k \in DOMAIN kwargs \cup DOMAIN extra_args |->
     IF k \in DOMAIN extra_args THEN extra_args[k] ELSE kwargs[k]]

\* Lines 299-313.
special_args_of(model_type) ==
  LET base ==
        Put(Put(EmptyDict, "pileup_image_height_child",
                [i |-> DEEP_TRIO_WGS_PILEUP_HEIGHT_CHILD]),
            "pileup_image_height_parent",
            [i |-> DEEP_TRIO_WGS_PILEUP_HEIGHT_PARENT])
      pacbio ==
        IF model_type = "PACBIO"
        THEN Put(Put(Put(base, "realign_reads", PyBool(FALSE)),
                     "vsc_min_fraction_indels", [f |-> "0.12"]),
                 "alt_aligned_pileup", PyStr("diff_channels"))
        ELSE base
  IN IF model_type = "WES"
     THEN Put(Put(pacbio, "pileup_image_height_child",
                  [i |-> DEEP_TRIO_WES_PILEUP_HEIGHT_CHILD]),
              "pileup_image_height_parent",
              [i |-> DEEP_TRIO_WES_PILEUP_HEIGHT_PARENT])
     ELSE pacbio

\* Lines 259-322; fl is FLAGS and kwargs the keyword arguments gvcf, regions.
make_examples_command(fl, examples, kwargs) ==
  LET fixed ==
        <<"time", "seq 0 " \o ToString(fl.num_shards - 1) \o " |",
          "parallel -q --halt 2 --line-buffer",
          "/opt/deepvariant/bin/deeptrio/make_examples",
          "--mode", "calling",
          "--ref", Quoted(fl.ref)>>
        \o (IF fl.reads_parent1 # None
            THEN <<"--reads_parent1", Quoted(Val(fl.reads_parent1))>>
            ELSE <<>>)
        \o (IF fl.reads_parent2 # None
            THEN <<"--reads_parent2", Quoted(Val(fl.reads_parent2))>>
            ELSE <<>>)
        \o <<"--reads", Quoted(fl.reads_child),
             "--examples", Quoted(examples),
             "--sample_name", Quoted(fl.sample_name_child)>>
        \o (IF fl.sample_name_parent1 # None
            THEN <<"--sample_name_parent1",
                   Quoted(Val(fl.sample_name_parent1))>>
            ELSE <<>>)
        \o (IF fl.sample_name_parent2 # None
            THEN <<"--sample_name_parent2",
                   Quoted(Val(fl.sample_name_parent2))>>
            ELSE <<>>)
      kwargs1 == update_kwargs_with_warning(kwargs,
                                            special_args_of(fl.model_type))
      kwargs2 == update_kwargs_with_warning(
                   kwargs1, extra_args_to_dict(fl.make_examples_extra_args))
  IN extend_command_by_args_dict(fixed, kwargs2) \o <<"--task {}">>

\* Lines 325-334.
call_variants_command(outfile, examples, model_ckpt, extra_args) ==
  extend_command_by_args_dict(
    <<"time", "/opt/deepvariant/bin/call_variants",
      "--outfile", Quoted(outfile),
      "--examples", Quoted(examples),
      "--checkpoint", Quoted(model_ckpt)>>,
    extra_args_to_dict(extra_args))

\* Lines 337-361.
postprocess_variants_command(ref, infile, outfile, extra_args, nonvariant_site_tfrecord_path, gvcf_outfile, vcf_stats_report) ==
  extend_command_by_args_dict(
    <<"time", "/opt/deepvariant/bin/postprocess_variants",
      "--ref", Quoted(ref),
      "--infile", Quoted(infile),
      "--outfile", Quoted(outfile)>>
    \o (IF nonvariant_site_tfrecord_path # None
        THEN <<"--nonvariant_site_tfrecord_path",
               Quoted(Val(nonvariant_site_tfrecord_path))>>
        ELSE <<>>)
    \o (IF gvcf_outfile # None
        THEN <<"--gvcf_outfile", Quoted(Val(gvcf_outfile))>>
        ELSE <<>>)
    \o (IF ~vcf_stats_report THEN <<"--novcf_stats_report">> ELSE <<>>),
    extra_args_to_dict(extra_args))

\* Lines 387-392; MODEL_TYPE_MAP[model_type] raises KeyError for a key the
\* dict does not hold.
get_model_ckpt(model_type, customized_model) ==
  IF customized_model # None
  THEN [err |-> "none", value |-> Val(customized_model)]
  ELSE IF model_type \in DOMAIN MODEL_TYPE_MAP
  THEN [err |-> "none", value |-> MODEL_TYPE_MAP[model_type]]
  ELSE [err |-> "KeyError", value |-> ""]

\* Lines 395-405.
generate_call_variants_command(fl, sample, model_ckpt, intermediate_results_dir) ==
  call_variants_command(
    Pattern3(call_variants_output_common_prefix(intermediate_results_dir),
             sample, CALL_VARIANTS_OUTPUT_COMMON_SUFFIX),
    Pattern3(examples_common_prefix(intermediate_results_dir), sample,
             examples_common_suffix(fl.num_shards)),
    model_ckpt, fl.call_variants_extra_args)

\* Lines 408-422: the path of the non-variant records is always passed.
generate_postprocess_variants_command(fl, sample, intermediate_results_dir, output_vcf, output_gvcf) ==
  postprocess_variants_command(
    fl.ref,
    Pattern3(call_variants_output_common_prefix(intermediate_results_dir),
             sample, CALL_VARIANTS_OUTPUT_COMMON_SUFFIX),
    output_vcf, fl.postprocess_variants_extra_args,
    Some(Pattern3(
           nonvariant_site_tfrecord_common_suffix(intermediate_results_dir),
           sample, examples_common_suffix(fl.num_shards))),
    output_gvcf, fl.vcf_stats_report)

\* Lines 469-485 with the postprocess commands of the parents first.
postprocess_commands_ParentsFirst(fl, intermediate_results_dir) ==
  (IF fl.reads_parent1 # None
   THEN <<generate_postprocess_variants_command(
            fl, PARENT1, intermediate_results_dir,
            Val(fl.output_vcf_parent1), fl.output_gvcf_parent1)>>
   ELSE <<>>)
  \o (IF fl.reads_parent2 # None
      THEN <<generate_postprocess_variants_command(
               fl, PARENT2, intermediate_results_dir,
               Val(fl.output_vcf_parent2), fl.output_gvcf_parent2)>>
      ELSE <<>>)
  \o <<generate_postprocess_variants_command(
         fl, CHILD, intermediate_results_dir, fl.output_vcf_child,
         fl.output_gvcf_child)>>
\* Lines 469-485.
postprocess_commands(fl, intermediate_results_dir) ==
  <<generate_postprocess_variants_command(
      fl, CHILD, intermediate_results_dir, fl.output_vcf_child,
      fl.output_gvcf_child)>>
  \o (IF fl.reads_parent1 # None
      THEN <<generate_postprocess_variants_command(
               fl, PARENT1, intermediate_results_dir,
               Val(fl.output_vcf_parent1), fl.output_gvcf_parent1)>>
      ELSE <<>>)
  \o (IF fl.reads_parent2 # None
      THEN <<generate_postprocess_variants_command(
               fl, PARENT2, intermediate_results_dir,
               Val(fl.output_vcf_parent2), fl.output_gvcf_parent2)>>
      ELSE <<>>)

\* Lines 425-487.  The two checkpoints are looked up before the commands
\* that use them are built, the parent one also when no parent is given.
create_all_commands(fl, intermediate_results_dir) ==
  LET nonvariant_site_tfrecord_path ==
        IF fl.output_gvcf_child # None
        THEN PyStr(
               nonvariant_site_tfrecord_common_suffix(intermediate_results_dir)
               \o "." \o examples_common_suffix(fl.num_shards))
        ELSE PyNone
      make_examples ==
        make_examples_command(
          fl, examples_common_name(intermediate_results_dir, fl.num_shards),
          Put(Put(EmptyDict, "gvcf", nonvariant_site_tfrecord_path),
              "regions", OfFlag(fl.regions)))
      child_ckpt == get_model_ckpt(fl.model_type \o "_child",
                                   fl.customized_model)
      parent_ckpt == get_model_ckpt(fl.model_type \o "_parent",
                                    fl.customized_model)
  IN IF child_ckpt.err # "none"
     THEN [err |-> child_ckpt.err, commands |-> <<>>]
     ELSE IF parent_ckpt.err # "none"
     THEN [err |-> parent_ckpt.err, commands |-> <<>>]
     ELSE [err |-> "none",
           commands |->
             <<make_examples>>
             \o <<generate_call_variants_command(
                    fl, CHILD, child_ckpt.value, intermediate_results_dir)>>
             \o (IF fl.reads_parent1 # None
                 THEN <<generate_call_variants_command(
                          fl, PARENT1, parent_ckpt.value,
                          intermediate_results_dir)>>
                 ELSE <<>>)
             \o (IF fl.reads_parent2 # None
                 THEN <<generate_call_variants_command(
                          fl, PARENT2, parent_ckpt.value,
                          intermediate_results_dir)>>
                 ELSE <<>>)
             \o postprocess_commands(fl, intermediate_results_dir)]

\* ---- inputs: the flags as main leaves them (the reads, the VCF and the
\* sample name of a parent are given together, lines 507-525)

ModelTypes == {"WGS", "WES", "PACBIO", "HYBRID_PACBIO_ILLUMINA"}
IntermediateResultsDir == "/tmp/out"
ExtraArgItems ==
  {<<"alt_aligned_pileup", "\"rows\"">>, <<"realign_reads", "TRUE">>,
   <<"regions", "chr1">>}
ExtraArgs ==
  {None} \cup
  {Some(items) : items \in
     UNION {[1..n -> ExtraArgItems] : n \in 1..MaxExtraArgs}}
Given(present, value) == IF present THEN Some(value) ELSE None
TrioFlags ==
  {[model_type |-> model_type, ref |-> "ref.fa",
    reads_child |-> "child.bam",
    reads_parent1 |-> Given(p1, "p1.bam"),
    reads_parent2 |-> Given(p2, "p2.bam"),
    sample_name_child |-> "kid",
    sample_name_parent1 |-> Given(p1, "mum"),
    sample_name_parent2 |-> Given(p2, "dad"),
    output_vcf_child |-> "kid.vcf",
    output_vcf_parent1 |-> Given(p1, "mum.vcf"),
    output_vcf_parent2 |-> Given(p2, "dad.vcf"),
    output_gvcf_child |-> Given(g[1], "kid.g.vcf"),
    output_gvcf_parent1 |-> Given(g[2], "mum.g.vcf"),
    output_gvcf_parent2 |-> Given(g[3], "dad.g.vcf"),
    customized_model |-> customized_model,
    num_shards |-> num_shards,
    regions |-> regions,
    make_examples_extra_args |-> extra,
    call_variants_extra_args |-> None,
    postprocess_variants_extra_args |-> None,
    vcf_stats_report |-> TRUE] :
     model_type \in ModelTypes, p1 \in BOOLEAN, p2 \in BOOLEAN,
     g \in BOOLEAN \X BOOLEAN \X BOOLEAN,
     customized_model \in {None, Some("/models/mine.ckpt")},
     num_shards \in {1, 2}, regions \in {None, Some("chr20")},
     extra \in ExtraArgs}

InitTrio ==
  /\ FLAGS \in TrioFlags
  /\ commands = NotCalled
  /\ EarlyIdle /\ FreqIdle /\ WriterIdle /\ ProcIdle /\ RunIdle
  /\ FlagsIdle /\ SelIdle

CreateAllCommands ==
  /\ commands = NotCalled
  /\ commands' = create_all_commands(FLAGS, IntermediateResultsDir)
  /\ UNCHANGED FLAGS
  /\ UNCHANGED <<earlyVars, freqVars, writerVars, procVars, runVars>>
  /\ UNCHANGED <<flagVars, selVars>>

NextTrio == CreateAllCommands
SpecTrio == InitTrio /\ [][NextTrio]_vars

\* ---- the claims about the commands of run_deeptrio

Returns == commands.err = "none"
\* The program a command runs.
ProgramOf(command) ==
  IF \E i \in DOMAIN command :
       command[i] = "/opt/deepvariant/bin/deeptrio/make_examples"
  THEN "make_examples"
  ELSE IF \E i \in DOMAIN command :
            command[i] = "/opt/deepvariant/bin/call_variants"
  THEN "call_variants"
  ELSE IF \E i \in DOMAIN command :
            command[i] = "/opt/deepvariant/bin/postprocess_variants"
  THEN "postprocess_variants"
  ELSE "other"
\* The positions of a flag in a command, and the values given to it.
PositionsOf(command, flag) == {i \in DOMAIN command : command[i] = flag}
ValuesOf(command, flag) ==
  {command[i + 1] : i \in {j \in PositionsOf(command, flag) :
                             j + 1 \in DOMAIN command}}
Has(command, flag) == PositionsOf(command, flag) # {}
\* The samples present, in the order child, parent1, parent2.
PresentSamples ==
  <<CHILD>>
  \o (IF FLAGS.reads_parent1 # None THEN <<PARENT1>> ELSE <<>>)
  \o (IF FLAGS.reads_parent2 # None THEN <<PARENT2>> ELSE <<>>)
\* The sample a call_variants or postprocess_variants command is about, by
\* the file of called variants it writes or reads.
CallsFileOf(sample) ==
  Quoted("/tmp/out/call_variants_output_" \o sample \o ".tfrecord.gz")
\* The default checkpoint of a sample for the model type.
DefaultCkptOf(sample) ==
  MODEL_TYPE_MAP[FLAGS.model_type \o
                   (IF sample = CHILD THEN "_child" ELSE "_parent")]

\* The commands are one make_examples, then a call_variants per present
\* sample in the order child, parent1, parent2, then a postprocess_variants
\* per present sample in that order, whose --infile is the --outfile of the
\* call_variants command of the sample.
PipelineOrder ==
  LET cs == commands.commands
      n == Len(PresentSamples)
  IN /\ Len(cs) = 1 + 2 * n
     /\ ProgramOf(cs[1]) = "make_examples"
     /\ \A k \in 1..n :
          /\ ProgramOf(cs[1 + k]) = "call_variants"
          /\ ValuesOf(cs[1 + k], "--outfile") = {CallsFileOf(PresentSamples[k])}
          /\ ProgramOf(cs[1 + n + k]) = "postprocess_variants"
          /\ ValuesOf(cs[1 + n + k], "--infile")
               = ValuesOf(cs[1 + k], "--outfile")
\* The checkpoint given to the call_variants command of the k-th sample.
CheckpointOf(k) == ValuesOf(commands.commands[1 + k], "--checkpoint")
\* Every call_variants command is given the default checkpoint of its
\* sample for the model type.
DefaultCheckpoints ==
  \A k \in 1..Len(PresentSamples) :
    /\ FLAGS.model_type \o "_child" \in DOMAIN MODEL_TYPE_MAP
    /\ CheckpointOf(k) = {Quoted(DefaultCkptOf(PresentSamples[k]))}
\* Every call_variants command is given the customized model.
CustomizedCheckpoints ==
  \A k \in 1..Len(PresentSamples) :
    CheckpointOf(k) = {Quoted(Val(FLAGS.customized_model))}

\* C21 as stated: create_all_commands returns the commands in pipeline
\* order (make_examples, call_variants per present sample, postprocess per
\* present sample, 7 for a trio and 5 for a duo, infile equal to outfile),
\* and the child is called with the child checkpoint and the parents with
\* the parent checkpoint of the model type.
C21_Claim ==
  Returns => PipelineOrder /\ DefaultCheckpoints

\* C21, amended: the commands returned are in pipeline order with infile
\* equal to outfile; without --customized_model the child is called with the
\* child checkpoint and the parents with the parent checkpoint of the model
\* type, and with --customized_model every call_variants command is given
\* that path.
C21_Theorem ==
  Returns =>
    /\ PipelineOrder
    /\ Len(PresentSamples) = 3 => Len(commands.commands) = 7
    /\ Len(PresentSamples) = 2 => Len(commands.commands) = 5
    /\ FLAGS.customized_model = None => DefaultCheckpoints
    /\ FLAGS.customized_model # None => CustomizedCheckpoints

\* A trio with a customized model for which seven commands were returned.
C21_Witness ==
  /\ Returns
  /\ Len(commands.commands) = 7
  /\ FLAGS.customized_model # None

\* ---- the optional flags of the make_examples command

MakeExamples == commands.commands[1]
\* The flag names set by the model type, by gvcf and by regions (a None
\* value included), and the names set by --make_examples_extra_args.
DefaultNames == DOMAIN special_args_of(FLAGS.model_type) \cup {"gvcf", "regions"}
ExtraItems ==
  IF FLAGS.make_examples_extra_args = None THEN <<>>
  ELSE Val(FLAGS.make_examples_extra_args)
ExtraNames == {ExtraItems[i][1] : i \in DOMAIN ExtraItems}
\* The text given last to a name in --make_examples_extra_args.
ExtraText(name) ==
  LET last == CHOOSE i \in DOMAIN ExtraItems :
                /\ ExtraItems[i][1] = name
                /\ \A j \in DOMAIN ExtraItems :
                     ExtraItems[j][1] = name => j <= i
  IN ExtraItems[last][2]
\* The positions at which a command names an optional flag, as --name or as
\* --noname.
NamedAt(command, name) ==
  PositionsOf(command, "--" \o name) \cup PositionsOf(command, "--no" \o name)
RankOf(name) == CHOOSE i \in DOMAIN FlagOrder : FlagOrder[i] = name
\* The flag is in the command once, with the value of the extra arguments.
OnceWithExtraValue(name) ==
  LET text == ExtraText(name)
  IN /\ Cardinality(NamedAt(MakeExamples, name)) = 1
     /\ IF text \in {"TRUE", "True", "true"}
        THEN Has(MakeExamples, "--" \o name)
        ELSE IF text \in {"FALSE", "False", "false"}
        THEN Has(MakeExamples, "--no" \o name)
        ELSE ValuesOf(MakeExamples, "--" \o name)
               = {IF text \in QuotedTexts THEN text ELSE Quoted(text)}
\* The optional flags come in alphabetical order of their names.
Alphabetical ==
  \A k1, k2 \in DOMAIN FlagOrder :
    \A i \in NamedAt(MakeExamples, FlagOrder[k1]) :
      \A j \in NamedAt(MakeExamples, FlagOrder[k2]) :
        i < j => k1 < k2
\* A flag whose value is None is left out.
NoneOmitted ==
  /\ FLAGS.output_gvcf_child = None /\ "gvcf" \notin ExtraNames
       => NamedAt(MakeExamples, "gvcf") = {}
  /\ FLAGS.regions = None /\ "regions" \notin ExtraNames
       => NamedAt(MakeExamples, "regions") = {}
\* The boolean default of PACBIO, realign_reads false, is rendered as
\* --norealign_reads.
BooleanRendered ==
  FLAGS.model_type = "PACBIO" /\ "realign_reads" \notin ExtraNames
    => /\ Has(MakeExamples, "--norealign_reads")
       /\ ~Has(MakeExamples, "--realign_reads")

\* C22: every flag set both by the defaults (model type, gvcf, regions) and
\* by --make_examples_extra_args is in the make_examples command exactly
\* once, with the extra value; the optional flags are in alphabetical
\* order, None values are left out and booleans are --name or --noname.
C22_Theorem ==
  Returns =>
    /\ \A name \in DefaultNames \cap ExtraNames : OnceWithExtraValue(name)
    /\ Alphabetical
    /\ NoneOmitted
    /\ BooleanRendered

\* A PACBIO command whose extra arguments override the boolean default
\* realign_reads and the string default alt_aligned_pileup.
C22_Witness ==
  /\ Returns
  /\ FLAGS.model_type = "PACBIO"
  /\ {"realign_reads", "alt_aligned_pileup"} \subseteq ExtraNames
  /\ Has(MakeExamples, "--realign_reads")

\* C24: for every model type and no --customized_model, create_all_commands
\* obtains the checkpoints of the child and of the parents without error;
\* with --customized_model, every call_variants command is given that path.
C24_Claim ==
  commands.err # "not called" =>
    /\ Returns
    /\ FLAGS.customized_model # None => CustomizedCheckpoints

\* The part of C24 that holds: the model types that MODEL_TYPE_MAP names
\* have both checkpoints, and a customized model is used for every call.
C24_MappedModelTypes ==
  commands.err # "not called" =>
    /\ (FLAGS.model_type \in {"WGS", "WES", "PACBIO"}
        \/ FLAGS.customized_model # None) => Returns
    /\ Returns /\ FLAGS.customized_model # None => CustomizedCheckpoints

\* The postprocess_variants commands, and the --gvcf the make_examples
\* command has to carry for them: the common prefix and the shard count.
PostprocessCommands ==
  {c \in Range(commands.commands) : ProgramOf(c) = "postprocess_variants"}
ExpectedGvcf ==
  Quoted("/tmp/out/gvcf.tfrecord@" \o ToString(FLAGS.num_shards) \o ".gz")
ReadsGvcfRecords(command) ==
  \/ Has(command, "--gvcf_outfile")
  \/ Has(command, "--nonvariant_site_tfrecord_path")

\* C30: whenever a postprocess_variants command carries --gvcf_outfile or
\* --nonvariant_site_tfrecord_path, the make_examples command before it
\* carries --gvcf with the matching prefix and shard count.
C30_Claim ==
  Returns =>
    \A c \in PostprocessCommands :
      ReadsGvcfRecords(c) =>
        /\ ProgramOf(commands.commands[1]) = "make_examples"
        /\ ValuesOf(MakeExamples, "--gvcf") = {ExpectedGvcf}

\* The part of C30 that holds: with --output_gvcf_child the make_examples
\* command carries --gvcf with the prefix and the shard count of the paths
\* that the postprocess_variants commands read.
C30_WithChildGvcf ==
  Returns /\ FLAGS.output_gvcf_child # None =>
    ValuesOf(MakeExamples, "--gvcf") = {ExpectedGvcf}

\* ------------------------------------------------------- filter_candidates

MaxSelectors == 2

\* variant_utils: the type of a variant by the lengths of its alleles.
is_biallelic(v) == Len(v.alternate_bases) = 1
is_multiallelic(v) == Len(v.alternate_bases) > 1
is_snp(v) ==
  /\ Len(v.reference_bases) = 1
  /\ v.alternate_bases # <<>>
  /\ \A k \in DOMAIN v.alternate_bases : Len(v.alternate_bases[k]) = 1
is_indel(v) ==
  /\ v.alternate_bases # <<>>
  /\ \/ Len(v.reference_bases) > 1
     \/ \E k \in DOMAIN v.alternate_bases : Len(v.alternate_bases[k]) > 1
has_insertion(v) ==
  \E k \in DOMAIN v.alternate_bases :
    Len(v.alternate_bases[k]) > Len(v.reference_bases)
has_deletion(v) ==
  \E k \in DOMAIN v.alternate_bases :
    Len(v.alternate_bases[k]) < Len(v.reference_bases)

\* Lines 338-351.
select_biallelic_snps(v) == is_snp(v) /\ is_biallelic(v)
select_biallelic_indels(v) == is_indel(v) /\ is_biallelic(v)
select_biallelic_insertions(v) == has_insertion(v) /\ is_biallelic(v)
select_biallelic_deletions(v) == has_deletion(v) /\ is_biallelic(v)

\* Lines 354-361: the keys of _VARIANT_TYPE_SELECTORS and the selector
\* under a key, applied to a variant.
VARIANT_TYPE_SELECTORS ==
  {"snps", "indels", "insertions", "deletions", "multi-allelics", "all"}
selector(select_type, v) ==
  CASE select_type = "snps" -> select_biallelic_snps(v)
    [] select_type = "indels" -> select_biallelic_indels(v)
    [] select_type = "insertions" -> select_biallelic_insertions(v)
    [] select_type = "deletions" -> select_biallelic_deletions(v)
    [] select_type = "multi-allelics" -> is_multiallelic(v)
    [] select_type = "all" -> TRUE

\* Lines 1298-1301 for one candidate without the break: the candidate is
\* yielded once for every selector it satisfies.
RECURSIVE YieldsOf_NoBreak(_, _, _)
YieldsOf_NoBreak(candidate, select_variant_types, j) ==
  IF j > Len(select_variant_types) THEN <<>>
  ELSE (IF selector(select_variant_types[j], candidate.variant)
        THEN <<candidate>> ELSE <<>>)
       \o YieldsOf_NoBreak(candidate, select_variant_types, j + 1)
\* Lines 1298-1301 for one candidate: what the inner loop yields from the
\* j-th selector on.
RECURSIVE YieldsOf(_, _, _)
YieldsOf(candidate, select_variant_types, j) ==
  IF j > Len(select_variant_types) THEN <<>>
  ELSE IF selector(select_variant_types[j], candidate.variant)
  THEN <<candidate>>
  ELSE YieldsOf(candidate, select_variant_types, j + 1)

\* Lines 1296-1301.
RECURSIVE FilterLoop(_, _, _)
FilterLoop(candidates, select_variant_types, n) ==
  IF n = 0 THEN <<>>
  ELSE FilterLoop(candidates, select_variant_types, n - 1)
       \o YieldsOf(candidates[n], select_variant_types, 1)

\* Lines 1268-1301, run to its end by list(...).
filter_candidates(candidates, select_variant_types) ==
  IF ~(\A i \in DOMAIN select_variant_types :
         select_variant_types[i] \in VARIANT_TYPE_SELECTORS)
  THEN [err |-> "ValueError", candidates |-> <<>>]
  ELSE [err |-> "none",
        candidates |-> FilterLoop(candidates, select_variant_types,
                                  Len(candidates))]

\* Lines 1548-1550 of process.
select_candidates(candidates, select_variant_types) ==
  IF select_variant_types # <<>>
  THEN filter_candidates(candidates, select_variant_types)
  ELSE [err |-> "none", candidates |-> candidates]

\* ---- inputs: a SNP, an insertion, a deletion, a multi-allelic SNP and a
\* multi-allelic variant with an insertion; selector names, one unrecognized

TypedVariants ==
  {[reference_bases |-> <<"A">>, alternate_bases |-> <<<<"T">>>>],
   [reference_bases |-> <<"A">>, alternate_bases |-> <<<<"A", "T">>>>],
   [reference_bases |-> <<"A", "T">>, alternate_bases |-> <<<<"A">>>>],
   [reference_bases |-> <<"A">>, alternate_bases |-> <<<<"T">>, <<"C">>>>],
   [reference_bases |-> <<"A">>,
    alternate_bases |-> <<<<"T">>, <<"A", "T">>>>]}
TypedCandidates ==
  UNION {[1..n -> {[variant |-> v] : v \in TypedVariants}] :
           n \in 0..MaxCandidates}
SelectorNames == VARIANT_TYPE_SELECTORS \cup {"snp"}
SelectorLists == UNION {[1..n -> SelectorNames] : n \in 0..MaxSelectors}

InitSelect ==
  /\ s_candidates \in TypedCandidates
  /\ s_select \in SelectorLists
  /\ s_out = NotCalled
  /\ EarlyIdle /\ FreqIdle /\ WriterIdle /\ ProcIdle /\ RunIdle
  /\ FlagsIdle /\ TrioIdle

SelectCandidates ==
  /\ s_out = NotCalled
  /\ s_out' = select_candidates(s_candidates, s_select)
  /\ UNCHANGED <<s_candidates, s_select>>
  /\ UNCHANGED <<earlyVars, freqVars, writerVars, procVars, runVars>>
  /\ UNCHANGED <<flagVars, trioVars>>

NextSelect == SelectCandidates
SpecSelect == InitSelect /\ [][NextSelect]_vars

\* A variant satisfies one of the selectors listed.
SatisfiesSome(v) ==
  \E i \in DOMAIN s_select :
    /\ s_select[i] \in VARIANT_TYPE_SELECTORS
    /\ selector(s_select[i], v)
AllRecognized ==
  \A i \in DOMAIN s_select : s_select[i] \in VARIANT_TYPE_SELECTORS

\* C28: with a non-empty list of recognized selector names the candidates
\* kept are exactly those whose variant satisfies a listed selector, in
\* input order and once each; an unrecognized name raises and nothing is
\* yielded; with no selector every candidate is kept.
C28_Theorem ==
  s_out # NotCalled =>
    /\ s_select # <<>> /\ AllRecognized =>
         /\ s_out.err = "none"
         /\ s_out.candidates
              = SelectSeq(s_candidates, LAMBDA c : SatisfiesSome(c.variant))
    /\ ~AllRecognized =>
         s_out.err = "ValueError" /\ s_out.candidates = <<>>
    /\ s_select = <<>> =>
         s_out.err = "none" /\ s_out.candidates = s_candidates

\* Two insertions filtered by indels and insertions, which both select
\* them: each is kept once.
C28_Witness ==
  /\ s_out # NotCalled
  /\ s_select = <<"indels", "insertions">>
  /\ Len(s_candidates) = 2
  /\ \A i \in DOMAIN s_candidates : has_insertion(s_candidates[i].variant)
  /\ s_out.candidates = s_candidates

====
